---- MODULE Spec2Model ----
(***************************************************************************)
(* Statement-to-reality pipeline: the requirements parser, the             *)
(* architecture inference engine with its validator / auto-fixer /         *)
(* optimizer, the multi-language code generator and the cloud deployment   *)
(* engine, as state machines over the values the Python code computes.     *)
(*                                                                         *)
(* Text is kept as text: Python's `in`, lower(), strip(), split() and      *)
(* join() are computed character by character on TLA+ strings.             *)
(***************************************************************************)
EXTENDS Integers, Sequences, FiniteSets, TLC

VARIABLES
  requirements,        \* the SystemRequirements record the caller holds
  callReq,             \* the requirements argument of the last architecture call
  architecture,        \* the SystemArchitecture being built / mutated in place (or NoArchitecture)
  component_templates, \* EnhancedArchitecturalInference.component_templates
  pattern_library,     \* ArchitectureService.pattern_library
  lastOp,              \* the architecture operation that ran last
  optRuns,             \* consecutive _optimize_architecture runs on this architecture
  before,              \* the architecture as it was when lastOp started
  firstInfer,          \* names, types and pattern set of the first infer_architecture(requirements)
  inferRaised,         \* whether the last architecture call raised
  interleaved,         \* whether another call ran after the first infer_architecture
  generation,          \* the last generate_code call and its outcome
  conversation,        \* the Conversation handed to the conversation service / parser
  processing,          \* the outcome of the last process_conversation / parse_statements call
  entity_cache,        \* EnhancedConversationalParser._entity_cache
  deployment,          \* the last deploy_application call and its outcome
  temp_dirs,           \* temporary directories created by _prepare_deployment_package
  provider_calls,      \* provider functions invoked so far, oldest first
  languages,           \* the languages argument of generate_multi_language_code
  tasks,               \* the (language, task) list of generate_multi_language_code
  results,             \* the results dict of generate_multi_language_code
  multi_call,          \* where the generate_multi_language_code call stands
  processing_result,   \* a ProcessingResult: its success, errors and warnings fields
  result_op,           \* the ProcessingResult method that ran last
  error_calls,         \* add_error calls made on the ProcessingResult so far
  statement_call,      \* the last Statement(...) construction and its outcome
  memory_cache,        \* MemoryCache.cache
  now,                 \* datetime.now(), in seconds
  got,                 \* the last MemoryCache.get call and what it returned
  live,                \* per key, the most recent set that no delete or clear followed
  counters,            \* InMemoryMetricsCollector.counters
  gauges,              \* InMemoryMetricsCollector.gauges
  timings,             \* InMemoryMetricsCollector.timings
  lock,                \* InMemoryMetricsCollector.lock: the thread holding it, or "free"
  threads,             \* per thread, the metrics call it is in and its position
  completed,           \* the metrics calls that have completed, oldest first
  summary,             \* what the last get_metrics_summary call returned
  legacy_requirements, \* the Requirements handed to recursive_architectural_process
  call_stack,          \* the frames of recursive_architectural_process, outermost first
  returned,            \* the Architecture the outermost call returned
  total_calls,         \* the calls of recursive_architectural_process made so far
  base_calls,          \* those of them that took the base case
  finished             \* per finished call: its depth, its case, the calls it made

archVars == <<requirements, callReq, architecture, component_templates, pattern_library,
              lastOp, optRuns, before, firstInfer, inferRaised, interleaved>>
genVars == <<generation>>
convVars == <<conversation, processing, entity_cache>>
depVars == <<deployment, temp_dirs, provider_calls>>
multiVars == <<languages, tasks, results, multi_call>>
modelVars == <<processing_result, result_op, error_calls, statement_call>>
cacheVars == <<memory_cache, now, got, live>>
metricVars == <<counters, gauges, timings, lock, threads, completed, summary>>
recVars == <<legacy_requirements, call_stack, returned, total_calls, base_calls, finished>>
utilVars == <<multiVars, modelVars, cacheVars, metricVars, recVars>>
coreVars == <<archVars, genVars, convVars, depVars>>
vars == <<coreVars, utilVars>>

-----------------------------------------------------------------------------
(* Bounds of the model.                                                    *)

MaxComponents == 2   \* components of a caller-built architecture
MaxEntities == 2     \* entries of requirements.extracted_entities
MaxOptRuns == 2      \* consecutive optimizer runs on one architecture

-----------------------------------------------------------------------------
(* Python str operations.                                                  *)

UpperChars == "ABCDEFGHIJKLMNOPQRSTUVWXYZ"
LowerChars == "abcdefghijklmnopqrstuvwxyz"

CharAt(s, i) == SubSeq(s, i, i)

\* str.lower() on one character
UpperSet == {CharAt(UpperChars, k) : k \in 1..26}
LowerOf ==
  [c \in UpperSet |-> CharAt(LowerChars, CHOOSE k \in 1..26 : CharAt(UpperChars, k) = c)]
LowerChar(c) == IF c \in UpperSet THEN LowerOf[c] ELSE c

\* s.lower()
RECURSIVE lower_from(_, _)
lower_from(s, i) ==
  IF i > Len(s) THEN "" ELSE LowerChar(CharAt(s, i)) \o lower_from(s, i + 1)

lower(s) == lower_from(s, 1)

\* `sub in s` on strings
contains(sub, s) ==
  \E i \in 1..(Len(s) - Len(sub) + 1) : SubSeq(s, i, i + Len(sub) - 1) = sub

\* `any(word in s for word in words)`
contains_any(words, s) == \E w \in words : contains(w, s)

IsSpace(c) == c \in {" ", "\t", "\n", "\r"}

\* `not s.strip()`
IsBlank(s) == \A i \in 1..Len(s) : IsSpace(CharAt(s, i))

\* s.strip()
RECURSIVE strip(_)
strip(s) ==
  IF Len(s) = 0 THEN ""
  ELSE IF IsSpace(CharAt(s, 1)) THEN strip(SubSeq(s, 2, Len(s)))
  ELSE IF IsSpace(CharAt(s, Len(s))) THEN strip(SubSeq(s, 1, Len(s) - 1))
  ELSE s

\* sep.join(list)
RECURSIVE join(_, _)
join(sep, list) ==
  IF Len(list) = 0 THEN ""
  ELSE IF Len(list) = 1 THEN list[1]
  ELSE list[1] \o sep \o join(sep, Tail(list))

\* s.split(): the whitespace-separated tokens of s
RECURSIVE split_ws(_, _, _)
split_ws(s, cur, acc) ==
  IF Len(s) = 0 THEN (IF cur = "" THEN acc ELSE Append(acc, cur))
  ELSE IF IsSpace(CharAt(s, 1))
       THEN split_ws(SubSeq(s, 2, Len(s)), "", IF cur = "" THEN acc ELSE Append(acc, cur))
       ELSE split_ws(SubSeq(s, 2, Len(s)), cur \o CharAt(s, 1), acc)

split(s) == split_ws(s, "", <<>>)

\* s.split(sep) for a one-character separator
RECURSIVE split_on(_, _, _, _)
split_on(s, sep, cur, acc) ==
  IF Len(s) = 0 THEN Append(acc, cur)
  ELSE IF CharAt(s, 1) = sep
       THEN split_on(SubSeq(s, 2, Len(s)), sep, "", Append(acc, cur))
       ELSE split_on(SubSeq(s, 2, Len(s)), sep, cur \o CharAt(s, 1), acc)

\* a string of n copies of s
RECURSIVE repeat(_, _)
repeat(s, n) ==
  IF n = 0 THEN ""
  ELSE IF n % 2 = 1 THEN s \o repeat(s, n - 1)
  ELSE LET h == repeat(s, n \div 2) IN h \o h

Range(f) == {f[i] : i \in DOMAIN f}

\* the sequences over S of length at most n
SeqsUpTo(S, n) == UNION {[1..k -> S] : k \in 0..n}

\* every ordering of a finite set: what list(set(...)) may return
Orderings(S) ==
  {o \in [1..Cardinality(S) -> S] : \A i, j \in 1..Cardinality(S) : i # j => o[i] # o[j]}

\* dict.get(key) is truthy
truthy_get(d, key) == key \in DOMAIN d /\ d[key] = TRUE

-----------------------------------------------------------------------------
(* Core models (src/src/core/models.py).                                   *)

SystemComponent(n, t, resp, ifaces, deps) ==
  [name |-> n, component_type |-> t, responsibilities |-> resp,
   interfaces |-> ifaces, dependencies |-> deps]

\* SystemComponent.__post_init__ accepts the component
component_post_init_ok(c) == ~IsBlank(c.name) /\ ~IsBlank(c.component_type)

SystemArchitecture(comps, rels, pats, qa, tech, dep) ==
  [components |-> comps, relationships |-> rels, patterns |-> pats,
   quality_attributes |-> qa, technology_stack |-> tech, deployment_model |-> dep]

\* SystemArchitecture.__post_init__ accepts the architecture
architecture_post_init_ok(a) == Len(a.components) > 0

NoArchitecture == [components |-> <<>>, relationships |-> <<>>, patterns |-> <<>>,
                   quality_attributes |-> <<>>, technology_stack |-> <<>>,
                   deployment_model |-> "<none>"]

SystemRequirements(func, nonfunc, cons, rules, qa, ents, conf) ==
  [functional_requirements |-> func, non_functional_requirements |-> nonfunc,
   constraints |-> cons, business_rules |-> rules, quality_attributes |-> qa,
   extracted_entities |-> ents, confidence_score |-> conf]

\* SystemArchitecture.get_component_by_name: index of the first component named n, 0 for None
get_component_by_name(a, n) ==
  IF \E i \in 1..Len(a.components) : a.components[i].name = n
  THEN CHOOSE i \in 1..Len(a.components) :
         /\ a.components[i].name = n
         /\ \A j \in 1..(i - 1) : a.components[j].name # n
  ELSE 0

-----------------------------------------------------------------------------
(* EnhancedArchitecturalInference (src/src/services/architecture_service.py). *)

\* _load_component_templates
ComponentTemplates ==
  [e \in {"api", "database", "user", "authentication", "payment", "notification"} |->
     CASE e = "api" ->
            [name |-> "APIService", type |-> "api",
             responsibilities |-> <<"Handle HTTP requests", "Route requests">>,
             interfaces |-> <<"RestAPI", "HTTPInterface">>]
       [] e = "database" ->
            [name |-> "DatabaseService", type |-> "database",
             responsibilities |-> <<"Data storage", "Data retrieval">>,
             interfaces |-> <<"DatabaseInterface">>]
       [] e = "user" ->
            [name |-> "UserService", type |-> "service",
             responsibilities |-> <<"User management", "Authentication">>,
             interfaces |-> <<"UserInterface">>]
       [] e = "authentication" ->
            [name |-> "AuthenticationService", type |-> "service",
             responsibilities |-> <<"User authentication", "Token management">>,
             interfaces |-> <<"AuthInterface">>]
       [] e = "payment" ->
            [name |-> "PaymentService", type |-> "service",
             responsibilities |-> <<"Payment processing", "Transaction management">>,
             interfaces |-> <<"PaymentInterface">>]
       [] e = "notification" ->
            [name |-> "NotificationService", type |-> "service",
             responsibilities |-> <<"Send notifications", "Message delivery">>,
             interfaces |-> <<"NotificationInterface">>]]

\* an engine without default components
no_default_components == <<>>

\* _get_default_components
_get_default_components ==
  << SystemComponent("APIGateway", "api_gateway", <<"Request routing", "Authentication">>,
                     <<"HTTPInterface">>, <<>>),
     SystemComponent("BusinessService", "service", <<"Business logic", "Data processing">>,
                     <<"BusinessInterface">>, <<"DatabaseService">>),
     SystemComponent("DatabaseService", "database", <<"Data persistence", "Data retrieval">>,
                     <<"DatabaseInterface">>, <<>>) >>

\* _determine_architecture_type
_determine_architecture_type(req) ==
  LET func_reqs_text == lower(join(" ", req.functional_requirements)) IN
  IF contains("microservice", func_reqs_text) THEN "microservices"
  ELSE IF contains_any({"web", "api", "rest"}, func_reqs_text) THEN "web_application"
  ELSE IF contains("mobile", func_reqs_text) THEN "mobile_application"
  ELSE IF contains_any({"desktop", "gui"}, func_reqs_text) THEN "desktop_application"
  ELSE "web_application"

\* a faulty variant: the loop stops after the first entity
components_of_first_entity(entities, templates) ==
  IF Len(entities) > 0 /\ Head(entities) \in DOMAIN templates
  THEN <<SystemComponent(templates[Head(entities)].name, templates[Head(entities)].type,
                         templates[Head(entities)].responsibilities,
                         templates[Head(entities)].interfaces, <<>>)>>
  ELSE <<>>

\* the loop of _generate_components over extracted_entities, in list order
RECURSIVE components_of_entities(_, _)
components_of_entities(entities, templates) ==
  IF Len(entities) = 0 THEN <<>>
  ELSE LET entity == Head(entities)
           rest == components_of_entities(Tail(entities), templates)
       IN IF entity \in DOMAIN templates
          THEN <<SystemComponent(templates[entity].name, templates[entity].type,
                                 templates[entity].responsibilities,
                                 templates[entity].interfaces, <<>>)>> \o rest
          ELSE rest

\* a faulty variant: the component list is never reset between calls
generate_components_accumulating(req) ==
  architecture.components \o components_of_entities(req.extracted_entities, component_templates)

\* _generate_components
_generate_components(req) ==
  LET components == components_of_entities(req.extracted_entities, component_templates) IN
  IF Len(components) = 0 THEN _get_default_components ELSE components

is_service(c) == c.component_type = "service"
is_api(c) == contains("api", lower(c.component_type))
is_database(c) == contains("database", lower(c.component_type))

\* the outer loop alone, each a paired with the first b
first_target_relationships(A, B, type, verb) ==
  IF Len(B) = 0 THEN <<>>
  ELSE [k \in 1..Len(A) |->
          [source |-> A[k].name, target |-> B[1].name, type |-> type,
           description |-> A[k].name \o verb \o B[1].name]]

\* the nested loops `for a in A: for b in B: append(rel(a, b))`
cross_relationships(A, B, type, verb) ==
  [k \in 1..(Len(A) * Len(B)) |->
     LET a == A[((k - 1) \div Len(B)) + 1]
         b == B[((k - 1) % Len(B)) + 1]
     IN [source |-> a.name, target |-> b.name, type |-> type,
         description |-> a.name \o verb \o b.name]]

\* _generate_relationships
_generate_relationships(components) ==
  LET api_components == SelectSeq(components, is_api)
      db_components == SelectSeq(components, is_database)
      service_components == SelectSeq(components, is_service)
  IN cross_relationships(api_components, service_components, "calls", " calls ")
     \o cross_relationships(service_components, db_components, "uses", " uses ")

\* the suggested patterns without the default of an empty list
suggested_pattern_set_without_default(req) ==
  LET func_reqs_text == lower(join(" ", req.functional_requirements)) IN
  (IF contains_any({"api", "service", "microservice"}, func_reqs_text)
     THEN {"microservices"} ELSE {})
  \cup (IF contains_any({"web", "ui", "interface"}, func_reqs_text)
     THEN {"mvc"} ELSE {})
  \cup (IF contains_any({"event", "notification", "async"}, func_reqs_text)
     THEN {"event_driven"} ELSE {})
  \cup (IF contains_any({"layer", "tier"}, func_reqs_text)
     THEN {"layered"} ELSE {})
  \cup (IF truthy_get(req.quality_attributes, "scalability")
     THEN {"microservices"} ELSE {})
  \cup (IF truthy_get(req.quality_attributes, "performance")
     THEN {"caching"} ELSE {})

\* suggest_patterns, before list(set(patterns)): the set of suggested patterns
suggested_pattern_set(req) ==
  LET func_reqs_text == lower(join(" ", req.functional_requirements))
      patterns ==
        (IF contains_any({"api", "service", "microservice"}, func_reqs_text)
           THEN {"microservices"} ELSE {})
        \cup (IF contains_any({"web", "ui", "interface"}, func_reqs_text)
           THEN {"mvc"} ELSE {})
        \cup (IF contains_any({"event", "notification", "async"}, func_reqs_text)
           THEN {"event_driven"} ELSE {})
        \cup (IF contains_any({"layer", "tier"}, func_reqs_text)
           THEN {"layered"} ELSE {})
        \cup (IF truthy_get(req.quality_attributes, "scalability")
           THEN {"microservices"} ELSE {})
        \cup (IF truthy_get(req.quality_attributes, "performance")
           THEN {"caching"} ELSE {})
  IN IF patterns = {} THEN {"layered"} ELSE patterns

\* suggest_patterns: every list that list(set(patterns)) may be
suggest_patterns(req) == Orderings(suggested_pattern_set(req))

\* _determine_technology_stack
_determine_technology_stack(req) ==
  LET all_text == lower(join(" ", req.functional_requirements
                                    \o req.non_functional_requirements))
  IN [backend |->
        IF contains_any({"python", "django", "flask"}, all_text) THEN <<"Python", "FastAPI">>
        ELSE IF contains_any({"node", "javascript"}, all_text) THEN <<"Node.js", "Express">>
        ELSE IF contains_any({"java", "spring"}, all_text) THEN <<"Java", "Spring Boot">>
        ELSE <<"Python", "FastAPI">>,
      frontend |->
        IF contains("react", all_text) THEN <<"React">>
        ELSE IF contains("vue", all_text) THEN <<"Vue.js">>
        ELSE IF contains("angular", all_text) THEN <<"Angular">>
        ELSE <<"React">>,
      database |->
        IF contains_any({"postgresql", "postgres"}, all_text) THEN <<"PostgreSQL">>
        ELSE IF contains("mysql", all_text) THEN <<"MySQL">>
        ELSE IF contains_any({"mongodb", "mongo"}, all_text) THEN <<"MongoDB">>
        ELSE <<"PostgreSQL">>,
      infrastructure |-> <<"Docker", "Kubernetes">>]

\* _determine_deployment_model
_determine_deployment_model(req) ==
  LET all_text == lower(join(" ", req.functional_requirements
                                    \o req.non_functional_requirements))
  IN IF contains_any({"cloud", "aws", "gcp"}, all_text) THEN "cloud"
     ELSE IF contains_any({"container", "docker"}, all_text) THEN "containerized"
     ELSE IF contains("serverless", all_text) THEN "serverless"
     ELSE "cloud"

\* infer_architecture; `patterns` is the list suggest_patterns returned
infer_architecture(req, patterns) ==
  LET components == _generate_components(req) IN
  SystemArchitecture(components, _generate_relationships(components), patterns,
                     req.quality_attributes, _determine_technology_stack(req),
                     _determine_deployment_model(req))

\* EnhancedArchitecturalInference.validate_architecture
RECURSIVE no_responsibility_issues(_)
no_responsibility_issues(components) ==
  IF Len(components) = 0 THEN <<>>
  ELSE (IF Len(Head(components).responsibilities) = 0
        THEN <<"Component " \o Head(components).name \o " has no responsibilities">>
        ELSE <<>>) \o no_responsibility_issues(Tail(components))

validate_architecture(a) ==
  (IF Len(a.components) = 0 THEN <<"Architecture has no components">> ELSE <<>>)
  \o (IF Len(a.patterns) = 0 THEN <<"Architecture has no patterns defined">> ELSE <<>>)
  \o no_responsibility_issues(a.components)

-----------------------------------------------------------------------------
(* ArchitectureService (src/src/services/architecture_service.py).         *)

\* _load_pattern_library
PatternLibrary ==
  [p \in {"layered", "microservices", "mvc", "event_driven"} |->
     CASE p = "layered" ->
            [components |->
               << [name |-> "PresentationLayer", type |-> "layer",
                   responsibilities |-> <<"UI handling">>],
                  [name |-> "BusinessLayer", type |-> "layer",
                   responsibilities |-> <<"Business logic">>],
                  [name |-> "DataLayer", type |-> "layer",
                   responsibilities |-> <<"Data access">>] >>,
             relationships |->
               << [source |-> "PresentationLayer", target |-> "BusinessLayer",
                   type |-> "depends_on"],
                  [source |-> "BusinessLayer", target |-> "DataLayer",
                   type |-> "depends_on"] >>,
             requirements |-> <<"clear_separation_of_concerns">>]
       [] p = "microservices" ->
            [components |->
               << [name |-> "APIGateway", type |-> "api_gateway",
                   responsibilities |-> <<"Request routing">>],
                  [name |-> "ServiceRegistry", type |-> "registry",
                   responsibilities |-> <<"Service discovery">>] >>,
             relationships |-> <<>>,
             requirements |-> <<"service_independence", "distributed_deployment">>]
       [] p = "mvc" ->
            [components |->
               << [name |-> "Model", type |-> "model",
                   responsibilities |-> <<"Data management">>],
                  [name |-> "View", type |-> "view",
                   responsibilities |-> <<"UI presentation">>],
                  [name |-> "Controller", type |-> "controller",
                   responsibilities |-> <<"Request handling">>] >>,
             relationships |->
               << [source |-> "Controller", target |-> "Model", type |-> "uses"],
                  [source |-> "Controller", target |-> "View", type |-> "updates"],
                  [source |-> "View", target |-> "Model", type |-> "observes"] >>,
             requirements |-> <<"clear_mvc_separation">>]
       [] p = "event_driven" ->
            [components |->
               << [name |-> "EventBus", type |-> "event_bus",
                   responsibilities |-> <<"Event routing">>],
                  [name |-> "EventStore", type |-> "storage",
                   responsibilities |-> <<"Event persistence">>] >>,
             relationships |-> <<>>,
             requirements |-> <<"event_based_communication">>]]

has_name(components, n) == \E i \in 1..Len(components) : components[i].name = n
has_type(components, t) == \E i \in 1..Len(components) : components[i].component_type = t

\* the component loop without its test for a component of the same name
add_pattern_components_unchecked(components, configs) ==
  components \o [i \in 1..Len(configs) |->
                   SystemComponent(configs[i].name, configs[i].type,
                                   configs[i].responsibilities, <<>>, <<>>)]

\* the component loop of _apply_pattern
RECURSIVE add_pattern_components(_, _)
add_pattern_components(components, configs) ==
  IF Len(configs) = 0 THEN components
  ELSE LET cfg == Head(configs) IN
       add_pattern_components(
         IF ~has_name(components, cfg.name)
         THEN Append(components,
                     SystemComponent(cfg.name, cfg.type, cfg.responsibilities, <<>>, <<>>))
         ELSE components,
         Tail(configs))

\* a pattern applied without its components
apply_pattern_relationships_only(a, pattern) ==
  [a EXCEPT !.relationships = a.relationships \o pattern_library[pattern].relationships,
            !.patterns = IF pattern \in Range(a.patterns) THEN a.patterns
                         ELSE Append(a.patterns, pattern)]

\* _apply_pattern
_apply_pattern(a, pattern) ==
  LET cfg == pattern_library[pattern] IN
  [a EXCEPT !.components = add_pattern_components(a.components, cfg.components),
            !.relationships = a.relationships \o cfg.relationships,
            !.patterns = IF pattern \in Range(a.patterns) THEN a.patterns
                         ELSE Append(a.patterns, pattern)]

\* _apply_architectural_patterns; `suggested` is the list suggest_patterns returned
RECURSIVE _apply_architectural_patterns(_, _)
_apply_architectural_patterns(a, suggested) ==
  IF Len(suggested) = 0 THEN a
  ELSE _apply_architectural_patterns(
         IF Head(suggested) \in DOMAIN pattern_library
         THEN _apply_pattern(a, Head(suggested)) ELSE a,
         Tail(suggested))

\* _validate_components; `seen` is the component_names set of the loop
RECURSIVE component_issues(_, _)
component_issues(components, seen) ==
  IF Len(components) = 0 THEN <<>>
  ELSE LET c == Head(components) IN
       (IF c.name \in seen THEN <<"Duplicate component name: " \o c.name>> ELSE <<>>)
       \o (IF Len(c.responsibilities) = 0
           THEN <<"Component " \o c.name \o " has no responsibilities">> ELSE <<>>)
       \o (IF c.component_type = ""
           THEN <<"Component " \o c.name \o " has no type">> ELSE <<>>)
       \o component_issues(Tail(components), seen \cup {c.name})

_validate_components(components) ==
  IF Len(components) = 0 THEN <<"Architecture has no components">>
  ELSE component_issues(components, {})

\* _validate_relationships
RECURSIVE relationship_issues(_, _)
relationship_issues(rels, names) ==
  IF Len(rels) = 0 THEN <<>>
  ELSE LET r == Head(rels) IN
       (IF r.source = "" \/ r.target = "" THEN <<"Relationship missing source or target">>
        ELSE (IF r.source \notin names
              THEN <<"Relationship references unknown component: " \o r.source>> ELSE <<>>)
             \o (IF r.target \notin names
              THEN <<"Relationship references unknown component: " \o r.target>> ELSE <<>>))
       \o relationship_issues(Tail(rels), names)

_validate_relationships(a) ==
  relationship_issues(a.relationships, {a.components[i].name : i \in 1..Len(a.components)})

\* _check_pattern_requirement
_check_pattern_requirement(a, requirement) ==
  CASE requirement = "clear_separation_of_concerns" -> Len(a.components) >= 3
    [] requirement = "service_independence" -> Len(SelectSeq(a.components, is_service)) >= 2
    [] requirement = "distributed_deployment" ->
         contains("microservices", lower(a.deployment_model))
    [] requirement = "clear_mvc_separation" ->
         {"model", "view", "controller"} \subseteq
           {a.components[i].component_type : i \in 1..Len(a.components)}
    [] requirement = "event_based_communication" ->
         \E i \in 1..Len(a.components) : contains("event", a.components[i].component_type)
    [] OTHER -> TRUE

\* the inner loop, leaving a pattern at its first unmet requirement
RECURSIVE requirement_issues_first_unmet(_, _, _)
requirement_issues_first_unmet(a, pattern, reqs) ==
  IF Len(reqs) = 0 THEN <<>>
  ELSE IF ~_check_pattern_requirement(a, Head(reqs))
       THEN <<"Pattern " \o pattern \o " requirement not met: " \o Head(reqs)>>
       ELSE requirement_issues_first_unmet(a, pattern, Tail(reqs))

\* the inner loop of _validate_patterns over one pattern's requirements
RECURSIVE requirement_issues(_, _, _)
requirement_issues(a, pattern, reqs) ==
  IF Len(reqs) = 0 THEN <<>>
  ELSE (IF ~_check_pattern_requirement(a, Head(reqs))
        THEN <<"Pattern " \o pattern \o " requirement not met: " \o Head(reqs)>>
        ELSE <<>>) \o requirement_issues(a, pattern, Tail(reqs))

\* _validate_patterns
RECURSIVE pattern_issues(_, _)
pattern_issues(a, patterns) ==
  IF Len(patterns) = 0 THEN <<>>
  ELSE (IF Head(patterns) \notin DOMAIN pattern_library
        THEN <<"Unknown architectural pattern: " \o Head(patterns)>>
        ELSE requirement_issues(a, Head(patterns), pattern_library[Head(patterns)].requirements))
       \o pattern_issues(a, Tail(patterns))

_validate_patterns(a) == pattern_issues(a, a.patterns)

\* the all_technologies list of the two technology checks
all_technologies(tech_stack) ==
  LET low(list) == [i \in 1..Len(list) |-> lower(list[i])] IN
  IF DOMAIN tech_stack = {} THEN <<>>
  ELSE low(tech_stack.backend) \o low(tech_stack.frontend)
       \o low(tech_stack.database) \o low(tech_stack.infrastructure)

\* _check_technology_conflicts
_check_technology_conflicts(tech_stack) ==
  LET techs == Range(all_technologies(tech_stack)) IN
  (IF "mysql" \in techs /\ "postgresql" \in techs
   THEN <<"Cannot use both MySQL and PostgreSQL">> ELSE <<>>)
  \o (IF "react" \in techs /\ "vue" \in techs
   THEN <<"Cannot use both React and Vue in frontend">> ELSE <<>>)
  \o (IF "express" \in techs /\ "fastify" \in techs
   THEN <<"Cannot use both Express and Fastify">> ELSE <<>>)

\* _check_missing_dependencies
_check_missing_dependencies(tech_stack) ==
  LET techs == Range(all_technologies(tech_stack))
      rule(tech, dep) ==
        IF tech \in techs /\ dep \notin techs
        THEN <<"Technology " \o tech \o " requires " \o dep>> ELSE <<>>
  IN rule("react", "nodejs") \o rule("vue", "nodejs") \o rule("django", "python")
     \o rule("flask", "python") \o rule("spring", "java") \o rule("express", "nodejs")

\* _validate_technology_stack
_validate_technology_stack(a) ==
  _check_technology_conflicts(a.technology_stack)
  \o _check_missing_dependencies(a.technology_stack)

\* validate_architecture_comprehensive
validate_architecture_comprehensive(a) ==
  validate_architecture(a) \o _validate_components(a.components)
  \o _validate_relationships(a) \o _validate_patterns(a) \o _validate_technology_stack(a)

\* a faulty variant: components without a type are dropped instead of typed
auto_fix_dropping_untyped(a, issues) ==
  [a EXCEPT !.components = SelectSeq(a.components, LAMBDA c : c.component_type # "")]

\* _auto_fix_architecture_issues
RECURSIVE _auto_fix_architecture_issues(_, _)
_auto_fix_architecture_issues(a, issues) ==
  IF Len(issues) = 0 THEN a
  ELSE LET issue == Head(issues)
           tokens == split(issue)
           idx == IF Len(tokens) >= 2 THEN get_component_by_name(a, tokens[2]) ELSE 0
           fixed ==
             IF contains("has no responsibilities", issue)
             THEN IF idx # 0
                  THEN [a EXCEPT !.components[idx].responsibilities =
                          <<"Handle " \o a.components[idx].component_type \o " operations">>]
                  ELSE a
             ELSE IF contains("has no type", issue)
             THEN IF idx # 0
                  THEN [a EXCEPT !.components[idx].component_type = "service"]
                  ELSE a
             ELSE a
       IN _auto_fix_architecture_issues(fixed, Tail(issues))

-----------------------------------------------------------------------------
(* The optimizer.                                                          *)

CacheLayer ==
  SystemComponent("CacheLayer", "cache", <<"Data caching", "Performance optimization">>,
                  <<"CacheInterface">>, <<>>)
LoadBalancer ==
  SystemComponent("LoadBalancer", "load_balancer", <<"Load distribution", "High availability">>,
                  <<"LoadBalancerInterface">>, <<>>)
MessageQueue ==
  SystemComponent("MessageQueue", "message_queue",
                  <<"Async message processing", "Service decoupling">>,
                  <<"MessageQueueInterface">>, <<>>)
AuthenticationService ==
  SystemComponent("AuthenticationService", "service",
                  <<"User authentication", "Token management">>, <<"AuthInterface">>, <<>>)
APIGateway ==
  SystemComponent("APIGateway", "api_gateway",
                  <<"Request routing", "Authentication", "Rate limiting">>,
                  <<"GatewayInterface">>, <<>>)

\* _optimize_for_performance
_optimize_for_performance(a) ==
  LET with_cache ==
        IF ~has_type(a.components, "cache") THEN Append(a.components, CacheLayer)
        ELSE a.components
      service_components == SelectSeq(with_cache, is_service)
  IN [a EXCEPT !.components =
        IF Len(service_components) > 1 /\ ~has_type(with_cache, "load_balancer")
        THEN Append(with_cache, LoadBalancer) ELSE with_cache]

\* _optimize_for_scalability
_optimize_for_scalability(a) ==
  [a EXCEPT !.patterns = IF "microservices" \notin Range(a.patterns)
                         THEN Append(a.patterns, "microservices") ELSE a.patterns,
            !.components = IF ~has_type(a.components, "message_queue")
                           THEN Append(a.components, MessageQueue) ELSE a.components]

\* a faulty variant: the gateway is put in front of the other components
optimize_for_security_gateway_first(a) ==
  LET with_auth ==
        IF ~\E i \in 1..Len(a.components) : contains("auth", lower(a.components[i].name))
        THEN Append(a.components, AuthenticationService) ELSE a.components
  IN [a EXCEPT !.components =
        IF ~has_type(with_auth, "api_gateway") THEN <<APIGateway>> \o with_auth
        ELSE with_auth]

\* _optimize_for_security
_optimize_for_security(a) ==
  LET with_auth ==
        IF ~\E i \in 1..Len(a.components) : contains("auth", lower(a.components[i].name))
        THEN Append(a.components, AuthenticationService) ELSE a.components
  IN [a EXCEPT !.components =
        IF ~has_type(with_auth, "api_gateway") THEN Append(with_auth, APIGateway)
        ELSE with_auth]

\* _optimize_architecture
_optimize_architecture(a, req) ==
  LET a1 == IF truthy_get(req.quality_attributes, "performance")
            THEN _optimize_for_performance(a) ELSE a
      a2 == IF truthy_get(req.quality_attributes, "scalability")
            THEN _optimize_for_scalability(a1) ELSE a1
  IN IF truthy_get(req.quality_attributes, "security")
     THEN _optimize_for_security(a2) ELSE a2

\* infer_and_validate_architecture, when nothing raises.  Both suggest_patterns
\* calls of one run build the same set the same way and so list it in the
\* same order, `patterns`.
infer_and_validate_architecture(req, patterns) ==
  LET inferred == infer_architecture(req, patterns)
      applied == _apply_architectural_patterns(inferred, patterns)
      validation_issues == validate_architecture_comprehensive(applied)
      fixed == IF Len(validation_issues) > 0
               THEN _auto_fix_architecture_issues(applied, validation_issues)
               ELSE applied
  IN _optimize_architecture(fixed, req)

\* what infer_architecture raises on: a dataclass __post_init__ rejecting its value
infer_raises(req) ==
  LET components == _generate_components(req) IN
  \/ Len(components) = 0
  \/ \E i \in 1..Len(components) : ~component_post_init_ok(components[i])

-----------------------------------------------------------------------------
(* Inputs of the architecture operations.                                  *)

QualityKeys == {"performance", "scalability", "security"}

\* quality_attributes dicts: flags set to True, absent flags, and flags set to False
QualityAttributeDicts ==
  {[k \in T |-> TRUE] : T \in SUBSET QualityKeys} \cup {[k \in QualityKeys |-> FALSE]}

\* the components a caller may build
ComponentUniverse ==
  { SystemComponent("UserService", "service", <<"Handle requests">>, <<>>, <<>>),
    SystemComponent("AuthenticationService", "service", <<"Handle requests">>, <<>>, <<>>),
    SystemComponent("APIGateway", "api_gateway", <<"Handle requests">>, <<>>, <<>>),
    SystemComponent("APIGateway", "service", <<"Handle requests">>, <<>>, <<>>),
    SystemComponent("CacheLayer", "cache", <<"Handle requests">>, <<>>, <<>>) }

\* architectures built by a caller, as the tests build them
CallerArchitectures ==
  {SystemArchitecture(comps,
                      <<[source |-> "UserService", target |-> "CacheLayer", type |-> "uses",
                         description |-> "UserService uses CacheLayer"]>>,
                      <<>>, <<>>,
                      [backend |-> <<"Python">>, frontend |-> <<>>,
                       database |-> <<"PostgreSQL">>, infrastructure |-> <<>>], "cloud") :
     comps \in SeqsUpTo(ComponentUniverse, MaxComponents) \ {<<>>}}

EntityPool == {"api", "authentication", "cache"}

FunctionalPool ==
  { <<>>,
    <<"Create REST API", "User authentication">>,
    <<"Build a web UI">> }

RequirementsPool ==
  {SystemRequirements(f, <<>>, <<>>, <<>>, qa, ents, 1) :
     f \in FunctionalPool, qa \in QualityAttributeDicts,
     ents \in SeqsUpTo(EntityPool, MaxEntities)}

\* requirements for the inference engine alone: every functional text with every
\* flag dict, and every entity list of up to MaxEntities + 1 templated entities
InferRequirements ==
  {SystemRequirements(f, <<>>, <<>>, <<>>, qa, <<>>, 1) :
     f \in FunctionalPool \cup {<<"Async tier">>}, qa \in QualityAttributeDicts}
  \cup {SystemRequirements(<<>>, <<>>, <<>>, <<>>, <<>>, ents, 1) :
     ents \in SeqsUpTo({"api", "user", "authentication", "database"}, MaxEntities + 1)}

\* requirements of the calls other clients make in between
AltRequirements ==
  { SystemRequirements(<<"Add a data tier">>, <<>>, <<>>, <<>>,
                       [k \in {"scalability"} |-> TRUE], <<"payment", "database">>, 1) }

\* requirements that carry only quality flags
FlagRequirements ==
  {SystemRequirements(<<>>, <<>>, <<>>, <<>>, qa, <<>>, 1) : qa \in QualityAttributeDicts}

\* components as they reach the validator: some lost their responsibilities or
\* their type after construction, one has a name of two words
FixComponentUniverse ==
  { SystemComponent("UserService", "service", <<>>, <<>>, <<>>),
    SystemComponent("UserService", "service", <<"Manage users">>, <<>>, <<>>),
    SystemComponent("User Service", "service", <<>>, <<>>, <<>>),
    SystemComponent("Worker", "", <<"Run jobs">>, <<>>, <<>>),
    SystemComponent("Worker", "", <<>>, <<>>, <<>>) }

FixRelationshipPool ==
  { <<>>,
    <<[source |-> "UserService", target |-> "Ghost", type |-> "uses"]>>,
    <<[source |-> "", target |-> "Worker", type |-> "uses"]>> }

FixPatternPool ==
  { <<>>, <<"microservices">>, <<"mvc", "cqrs">>, <<"layered">>,
    <<"cqrs", "event_driven", "cqrs">> }

\* architectures handed to the validator and the auto-fixer
FixArchitectures ==
  {SystemArchitecture(comps, rels, pats, <<>>,
                      [backend |-> <<"Python">>, frontend |-> <<>>,
                       database |-> <<"PostgreSQL">>, infrastructure |-> <<>>], "cloud") :
     comps \in SeqsUpTo(FixComponentUniverse, MaxComponents) \ {<<>>},
     rels \in FixRelationshipPool, pats \in FixPatternPool}

NameTypes(a) ==
  [i \in 1..Len(a.components) |-> <<a.components[i].name, a.components[i].component_type>>]

Summary(a) == [components |-> NameTypes(a), patterns |-> Range(a.patterns)]
NoSummary == [components |-> <<>>, patterns |-> {}]

ArchIdle ==
  /\ callReq = requirements
  /\ component_templates = ComponentTemplates
  /\ pattern_library = PatternLibrary
  /\ lastOp = "none" /\ optRuns = 0
  /\ before = NoArchitecture
  /\ firstInfer = NoSummary
  /\ inferRaised = FALSE
  /\ interleaved = FALSE

-----------------------------------------------------------------------------
(* Architecture operations.                                                *)

\* an operation that mutates the architecture `a0` in place into `a`
ArchStep(op, a0, a) ==
  /\ architecture' = a
  /\ before' = a0
  /\ lastOp' = op
  /\ optRuns' = IF op = "optimize" THEN optRuns + 1 ELSE 0
  /\ UNCHANGED <<requirements, component_templates, pattern_library>>

\* infer_architecture(req) builds a new architecture, or raises and leaves the old one
InferStep(op, req, a) ==
  /\ callReq' = req
  /\ inferRaised' = infer_raises(req)
  /\ interleaved' = (interleaved \/ (op # "infer_architecture" /\ firstInfer # NoSummary))
  /\ ArchStep(op, NoArchitecture, IF infer_raises(req) THEN architecture ELSE a)

\* EnhancedArchitecturalInference.infer_architecture(requirements)
InferArchitecture ==
  /\ \E patterns \in suggest_patterns(requirements) :
       LET a == infer_architecture(requirements, patterns) IN
       /\ InferStep("infer_architecture", requirements, a)
       /\ firstInfer' = IF firstInfer = NoSummary /\ ~infer_raises(requirements)
                        THEN Summary(a) ELSE firstInfer
  /\ UNCHANGED <<genVars, convVars, depVars, utilVars>>

\* ArchitectureService.infer_and_validate_architecture(requirements)
InferAndValidateArchitecture ==
  /\ \E patterns \in suggest_patterns(requirements) :
       InferStep("infer_and_validate_architecture", requirements,
                 infer_and_validate_architecture(requirements, patterns))
  /\ UNCHANGED <<firstInfer, genVars, convVars, depVars, utilVars>>

\* another client's infer_and_validate_architecture call, with its own requirements
InferForOtherClient ==
  /\ \E req \in AltRequirements : \E patterns \in suggest_patterns(req) :
       InferStep("other_client", req, infer_and_validate_architecture(req, patterns))
  /\ UNCHANGED <<firstInfer, genVars, convVars, depVars, utilVars>>

\* ArchitectureService._optimize_architecture(architecture, callReq)
OptimizeArchitecture ==
  /\ architecture # NoArchitecture
  /\ optRuns < MaxOptRuns
  /\ ArchStep("optimize", architecture, _optimize_architecture(architecture, callReq))
  /\ UNCHANGED <<callReq, firstInfer, inferRaised, interleaved, genVars, convVars, depVars, utilVars>>

\* validate_architecture_comprehensive, then _auto_fix_architecture_issues on its issues
ValidateAndAutoFix ==
  /\ architecture # NoArchitecture
  /\ lastOp # "auto_fix"
  /\ LET validation_issues == validate_architecture_comprehensive(architecture) IN
     ArchStep("auto_fix", architecture,
              IF Len(validation_issues) > 0
              THEN _auto_fix_architecture_issues(architecture, validation_issues)
              ELSE architecture)
  /\ UNCHANGED <<callReq, firstInfer, inferRaised, interleaved, genVars, convVars, depVars, utilVars>>

-----------------------------------------------------------------------------
(* Code generation (src/src/services/code_generation_service.py and the   *)
(* legacy src/multi_language_generator.py).                                *)

\* d[k] = v on a dict
dict_put(d, k, v) == [x \in DOMAIN d \cup {k} |-> IF x = k THEN v ELSE d[x]]

\* CodeGenConfig.supported_languages with "javascript" added: a faulty variant
supported_languages_with_javascript ==
  <<"python", "rust", "go", "typescript", "java", "cpp", "javascript">>

\* CodeGenConfig.supported_languages
supported_languages == <<"python", "rust", "go", "typescript", "java", "cpp">>

\* _load_templates: the (language, framework) pairs that have a template
TemplateKeys == {<<"python", "fastapi">>, <<"rust", "axum">>}

\* dict.get(language, default) on the per-language tables of the generator
language_table(language, table, default) ==
  IF language \in DOMAIN table THEN table[language] ELSE default

_get_default_framework(language) ==
  language_table(language,
                 [python |-> "fastapi", rust |-> "axum", go |-> "gin",
                  typescript |-> "express", java |-> "spring", cpp |-> "crow"],
                 "default")

_get_main_filename(language) ==
  language_table(language,
                 [python |-> "main.py", rust |-> "main.rs", go |-> "main.go",
                  typescript |-> "index.ts", java |-> "Main.java", cpp |-> "main.cpp"],
                 "main.txt")

_get_entry_point(language, framework) == _get_main_filename(language)

\* _generate_component_file: the (filename, content) pair, or None as <<>>
_generate_component_file(component, language) ==
  IF language = "python"
  THEN <<lower(component.name) \o ".py", "component " \o component.name>>
  ELSE <<>>

\* the component loop of _generate_files
RECURSIVE component_files(_, _, _)
component_files(files, components, language) ==
  IF Len(components) = 0 THEN files
  ELSE LET component_file == _generate_component_file(Head(components), language) IN
       component_files(IF component_file # <<>>
                       THEN dict_put(files, component_file[1], component_file[2])
                       ELSE files,
                       Tail(components), language)

\* _generate_files
_generate_files(a, language, framework) ==
  component_files(IF <<language, framework>> \in TemplateKeys
                  THEN dict_put(<<>>, _get_main_filename(language), "main generated_app")
                  ELSE <<>>,
                  a.components, language)

\* GeneratedCode.__post_init__: the message of the ValueError it raises, or ""
generated_code_post_init(language, files, entry_point) ==
  IF IsBlank(language) THEN "Language cannot be empty"
  ELSE IF DOMAIN files = {} THEN "Generated code must contain at least one file"
  ELSE IF entry_point \notin DOMAIN files THEN "Entry point must be one of the generated files"
  ELSE ""

NoGeneration ==
  [generator |-> "none", language |-> "", framework |-> "", outcome |-> "none",
   error |-> "", message |-> "", files |-> <<>>, entry_point |-> "",
   ran_file_routine |-> FALSE]

Raised(call, error, message) ==
  [call EXCEPT !.outcome = "raised", !.error = error, !.message = message]

\* EnhancedMultiLanguageGenerator.generate_code; framework "" is an omitted framework
enhanced_generate_code(a, language, framework) ==
  LET call == [NoGeneration EXCEPT !.generator = "enhanced", !.language = language,
                                   !.framework = framework] IN
  IF language \notin Range(supported_languages)
  THEN Raised(call, "UnsupportedLanguageError", "Language " \o language \o " not supported")
  ELSE LET fw == IF framework = "" THEN _get_default_framework(language) ELSE framework
           files == _generate_files(a, language, fw)
           entry_point == _get_entry_point(language, fw)
           invalid == generated_code_post_init(language, files, entry_point)
           ran == [call EXCEPT !.framework = fw, !.ran_file_routine = TRUE]
       IN IF invalid # "" THEN Raised(ran, "ValueError", invalid)
          ELSE [ran EXCEPT !.outcome = "returned", !.files = files,
                           !.entry_point = entry_point]

\* ProductionMultiLanguageGenerator.get_supported_languages
production_supported_languages == <<"python", "rust", "go", "typescript", "java", "cpp">>

\* the file names the _generate_<language> methods of the legacy generator write
production_file_names(language, fw) ==
  CASE language = "python" ->
         (IF fw = "fastapi" THEN {"main.py", "requirements.txt"}
          ELSE IF fw = "flask" THEN {"app.py", "requirements.txt"}
          ELSE IF fw = "django" THEN {"manage.py"} ELSE {})
         \cup {"models.py", "services.py", "config.py", "Dockerfile", "README.md"}
    [] language = "rust" ->
         (IF fw \in {"axum", "warp", "actix"} THEN {"src/main.rs"} ELSE {})
         \cup {"Cargo.toml", "src/models.rs", "src/services.rs", "src/config.rs",
               "Dockerfile", "README.md"}
    [] language = "go" ->
         (IF fw \in {"gin", "echo", "fiber"} THEN {"main.go"} ELSE {})
         \cup {"go.mod", "models/models.go", "services/services.go", "config/config.go",
               "Dockerfile", "README.md"}
    [] language = "typescript" ->
         (IF fw \in {"express", "koa"} THEN {"src/app.ts"}
          ELSE IF fw = "nestjs" THEN {"src/main.ts"} ELSE {})
         \cup {"package.json", "tsconfig.json", "src/models/index.ts",
               "src/services/index.ts", "src/config/index.ts", "Dockerfile", "README.md"}
    [] language = "java" ->
         (IF fw \in {"spring", "quarkus"} THEN {"src/main/java/Application.java"} ELSE {})
         \cup {"README.md"}
    [] language = "cpp" ->
         (IF fw \in {"crow", "beast"} THEN {"src/main.cpp"} ELSE {})
         \cup {"CMakeLists.txt", "include/models.hpp", "src/models.cpp",
               "include/services.hpp", "src/services.cpp", "Dockerfile", "README.md"}

\* ProductionMultiLanguageGenerator.generate_code: it returns the files dict itself
production_generate_code(a, language, framework) ==
  LET call == [NoGeneration EXCEPT !.generator = "production", !.language = language,
                                   !.framework = framework] IN
  IF language \notin Range(production_supported_languages)
  THEN Raised(call, "ValueError", "Unsupported language: " \o language)
  ELSE LET fw == IF framework = "" THEN _get_default_framework(language) ELSE framework IN
       [call EXCEPT !.framework = fw, !.ran_file_routine = TRUE, !.outcome = "returned",
                    !.files = [f \in production_file_names(language, fw) |->
                                 "production " \o language]]

\* the language strings callers pass: the supported ones and some that are not
LanguagePool == Range(supported_languages) \cup {"javascript", "Python", ""}

\* the framework argument: omitted, or named
FrameworkPool == {"", "flask"}

\* architectures handed to the generators
GeneratorArchitectures ==
  {SystemArchitecture(comps, <<>>, <<"layered">>, <<>>,
                      [backend |-> <<"Python">>, frontend |-> <<>>,
                       database |-> <<"PostgreSQL">>, infrastructure |-> <<>>], "cloud") :
     comps \in SeqsUpTo({SystemComponent("UserService", "service", <<"Handle requests">>, <<>>, <<>>),
                         SystemComponent("APIGateway", "api_gateway", <<"Route">>, <<>>, <<>>),
                         SystemComponent("Main", "service", <<"Run">>, <<>>, <<>>)},
                        MaxComponents) \ {<<>>}}

GenIdle == generation = NoGeneration

\* EnhancedMultiLanguageGenerator.generate_code(architecture, language, framework)
EnhancedGenerateCode ==
  /\ \E language \in LanguagePool, framework \in FrameworkPool :
       generation' = enhanced_generate_code(architecture, language, framework)
  /\ UNCHANGED <<archVars, convVars, depVars, utilVars>>

\* ProductionMultiLanguageGenerator.generate_code(architecture, language, framework)
ProductionGenerateCode ==
  /\ \E language \in LanguagePool, framework \in FrameworkPool :
       generation' = production_generate_code(architecture, language, framework)
  /\ UNCHANGED <<archVars, convVars, depVars, utilVars>>

-----------------------------------------------------------------------------
(* Conversation processing (src/src/services/conversation_service.py).     *)

None == "<None>"

\* Statement; a field that was never given holds None
Statement(content, context, timestamp, speaker, statement_type) ==
  [content |-> content, context |-> context, timestamp |-> timestamp,
   speaker |-> speaker, statement_type |-> statement_type, confidence |-> 0]

Conversation(statements) == [statements |-> statements, conversation_id |-> "conv-1"]

\* SystemRequirements([], [], [], [], {}, []): the placeholder of a new ProcessingResult
EmptyRequirements == SystemRequirements(<<>>, <<>>, <<>>, <<>>, <<>>, <<>>, <<0, 1>>)

\* _validate_statement: the message of the StatementParsingError it raises, or ""
_validate_statement(statement) ==
  IF IsBlank(statement.content) THEN "Statement content is empty"
  ELSE IF Len(statement.content) > 10000 THEN "Statement too long (>10000 characters)"
  ELSE LET required_fields == <<"content", "context", "timestamp", "speaker", "statement_type">>
           missing == SelectSeq(required_fields, LAMBDA f : statement[f] = None)
       IN IF Len(missing) > 0 THEN "Statement missing required field: " \o Head(missing)
          ELSE ""

\* a validator that rejects nothing: a faulty variant
validate_nothing(conv) == ""

\* _validate_conversation: the message of the ConversationProcessingError it raises, or ""
_validate_conversation(conv) ==
  IF Len(conv.statements) = 0 THEN "Conversation has no statements"
  ELSE IF Len(conv.statements) > 1000 THEN "Conversation too long (>1000 statements)"
  ELSE LET invalid == {i \in 1..Len(conv.statements) :
                         _validate_statement(conv.statements[i]) # ""} IN
       IF invalid = {} THEN ""
       ELSE LET i == CHOOSE k \in invalid : \A j \in invalid : k <= j IN
            "Invalid statement at index " \o ToString(i - 1) \o ": "
              \o _validate_statement(conv.statements[i])

technical_keywords ==
  <<"api", "database", "user", "authentication", "authorization",
    "payment", "notification", "email", "sms", "file", "upload",
    "download", "search", "filter", "sort", "pagination", "cache",
    "session", "cookie", "token", "jwt", "oauth", "ssl", "https",
    "rest", "graphql", "websocket", "microservice", "container",
    "docker", "kubernetes", "aws", "gcp", "azure">>

\* a faulty variant: every word of the text is taken as an entity
extract_entities_every_word(text, cache) ==
  [entities |-> split(lower(text)), cache |-> dict_put(cache, text, split(lower(text)))]

\* extract_entities: the returned list and the cache it leaves
extract_entities(text, cache) ==
  IF text \in DOMAIN cache THEN [entities |-> cache[text], cache |-> cache]
  ELSE LET text_lower == lower(text)
           entities == SelectSeq(technical_keywords, LAMBDA keyword : contains(keyword, text_lower))
       IN [entities |-> entities, cache |-> dict_put(cache, text, entities)]

\* the sentence loop of _extract_functional_requirements for one pattern
matching_sentences(pattern, sentences) ==
  LET hits == SelectSeq(sentences, LAMBDA sentence : contains(pattern, lower(sentence))) IN
  [i \in 1..Len(hits) |-> strip(hits[i])]

RECURSIVE pattern_requirements(_, _)
pattern_requirements(patterns, content) ==
  IF Len(patterns) = 0 THEN <<>>
  ELSE (IF contains(Head(patterns), lower(content))
        THEN matching_sentences(Head(patterns), split_on(content, ".", "", <<>>))
        ELSE <<>>) \o pattern_requirements(Tail(patterns), content)

_extract_functional_requirements(statement) ==
  LET requirements_found ==
        pattern_requirements(<<"create", "build", "implement", "develop", "add", "remove",
                               "update", "delete", "manage", "handle", "process", "generate">>,
                             statement.content)
  IN IF Len(requirements_found) > 0 THEN requirements_found ELSE <<statement.content>>

\* str.title() of a lower-case word
title(word) ==
  LET k == CHOOSE i \in 1..26 : CharAt(LowerChars, i) = CharAt(word, 1) IN
  CharAt(UpperChars, k) \o SubSeq(word, 2, Len(word))

_extract_non_functional_requirements(statement) ==
  LET quality_patterns == <<"performance", "scalability", "security", "reliability",
                            "availability", "usability", "maintainability", "portability">>
      content_lower == lower(statement.content)
      hits == SelectSeq(quality_patterns, LAMBDA pattern : contains(pattern, content_lower))
  IN IF Len(hits) > 0
     THEN [i \in 1..Len(hits) |-> title(hits[i]) \o ": " \o statement.content]
     ELSE <<statement.content>>

\* _extract_constraints and _extract_business_rules: the content, once, on either branch
_extract_constraints(statement) == <<statement.content>>
_extract_business_rules(statement) == <<statement.content>>

_extract_quality_attributes(conv) ==
  LET full_text == join(" ", [i \in 1..Len(conv.statements) |->
                                lower(conv.statements[i].content)]) IN
  [attribute \in {"performance", "scalability", "security", "reliability", "usability"}
     |-> contains(attribute, full_text)]

\* _calculate_parsing_confidence: the quotient parsed / total as <<parsed, total>>
_calculate_parsing_confidence(conv) ==
  LET parsed_statements ==
        Cardinality({i \in 1..Len(conv.statements) :
                       contains_any({"create", "build", "implement", "need", "want",
                                     "should", "must"},
                                    lower(conv.statements[i].content))})
  IN IF Len(conv.statements) > 0 THEN <<parsed_statements, Len(conv.statements)>>
     ELSE <<0, 1>>

\* a statement loop that files each statement under every table it matches
RECURSIVE parse_loop_by_keyword(_, _)
parse_loop_by_keyword(statements, acc) ==
  IF Len(statements) = 0 THEN acc
  ELSE LET statement == Head(statements)
           content_lower == lower(statement.content)
           found == extract_entities(statement.content, acc.cache)
       IN parse_loop_by_keyword(Tail(statements),
            [functional_reqs |->
               acc.functional_reqs \o (IF contains_any({"create", "build", "add"}, content_lower)
                                       THEN <<statement.content>> ELSE <<>>),
             non_functional_reqs |->
               acc.non_functional_reqs \o (IF contains_any({"performance", "security"},
                                                           content_lower)
                                           THEN <<statement.content>> ELSE <<>>),
             constraints |->
               acc.constraints \o (IF contains_any({"must", "should"}, content_lower)
                                   THEN <<statement.content>> ELSE <<>>),
             business_rules |->
               acc.business_rules \o (IF contains_any({"if", "when"}, content_lower)
                                      THEN <<statement.content>> ELSE <<>>),
             entities |-> acc.entities \cup Range(found.entities),
             cache |-> found.cache])

\* the statement loop of parse_statements
RECURSIVE parse_loop(_, _)
parse_loop(statements, acc) ==
  IF Len(statements) = 0 THEN acc
  ELSE LET statement == Head(statements)
           type == statement.statement_type
           found == extract_entities(statement.content, acc.cache)
       IN parse_loop(Tail(statements),
            [functional_reqs |->
               acc.functional_reqs \o (IF type = "functional"
                                       THEN _extract_functional_requirements(statement)
                                       ELSE <<>>),
             non_functional_reqs |->
               acc.non_functional_reqs \o (IF type = "non_functional"
                                           THEN _extract_non_functional_requirements(statement)
                                           ELSE <<>>),
             constraints |->
               acc.constraints \o (IF type = "constraint"
                                   THEN _extract_constraints(statement) ELSE <<>>),
             business_rules |->
               acc.business_rules \o (IF type = "business_rule"
                                      THEN _extract_business_rules(statement) ELSE <<>>),
             entities |-> acc.entities \cup Range(found.entities),
             cache |-> found.cache])

parsed(conv, cache) ==
  parse_loop(conv.statements,
             [functional_reqs |-> <<>>, non_functional_reqs |-> <<>>, constraints |-> <<>>,
              business_rules |-> <<>>, entities |-> {}, cache |-> cache])

\* parse_statements; `entity_list` is the list that list(entities) returned
parse_statements(conv, cache, entity_list) ==
  LET p == parsed(conv, cache) IN
  SystemRequirements(p.functional_reqs, p.non_functional_reqs, p.constraints,
                     p.business_rules, _extract_quality_attributes(conv),
                     entity_list, _calculate_parsing_confidence(conv))

NoProcessing ==
  [op |-> "none", raised |-> FALSE, success |-> TRUE, errors |-> <<>>,
   requirements |-> EmptyRequirements, parser_ran |-> FALSE, statement_count |-> 0]

\* process_conversation: the ProcessingResult it returns
process_conversation(conv, cache, entity_list) ==
  LET result == [NoProcessing EXCEPT !.op = "process_conversation"]
      invalid == _validate_conversation(conv)
  IN IF invalid # ""
     THEN [result EXCEPT !.errors = Append(@, "Conversation processing failed: " \o invalid),
                         !.success = FALSE]
     ELSE [result EXCEPT !.requirements = parse_statements(conv, cache, entity_list),
                         !.parser_ran = TRUE,
                         !.statement_count = Len(conv.statements)]

MaxStatements == 2   \* statements of a conversation the caller builds

StatementPool ==
  { Statement("Create REST API", "{}", "t0", "user", "functional"),
    Statement("Need JWT security", "{}", "t1", "user", "non_functional"),
    Statement("Must use Docker", None, "t2", "user", "constraint"),
    Statement("  ", "{}", "t3", "user", "business_rule") }

\* conversations: built from the pool, emptied after construction, over-long, over-sized
ConversationPool ==
  {Conversation(stmts) : stmts \in SeqsUpTo(StatementPool, MaxStatements)}
  \cup { Conversation(<<Statement(repeat("a", 10001), "{}", "t4", "user", "functional")>>),
         Conversation([i \in 1..1001 |->
                         Statement("Create REST API", "{}", "t0", "user", "functional")]) }

\* StatementType
StatementTypes == {"functional", "non_functional", "constraint", "business_rule", "evolution"}

\* statements for the parser alone: a content without any keyword and a content
\* with an action verb and a modal word, declared with every statement type
ParserStatementPool ==
  {Statement(content, "{}", "t0", "user", type) :
     content \in {"Support SMS later", "Must create API"}, type \in StatementTypes}

ParserConversations ==
  {Conversation(stmts) : stmts \in SeqsUpTo(ParserStatementPool, MaxStatements) \ {<<>>}}

ConvIdle == processing = NoProcessing /\ entity_cache = <<>>

\* ConversationService.process_conversation(conversation)
ProcessConversation ==
  /\ LET valid == _validate_conversation(conversation) = "" IN
     \E entity_list \in (IF valid THEN Orderings(parsed(conversation, entity_cache).entities)
                         ELSE {<<>>}) :
       /\ processing' = process_conversation(conversation, entity_cache, entity_list)
       /\ entity_cache' = IF valid THEN parsed(conversation, entity_cache).cache
                          ELSE entity_cache
  /\ UNCHANGED <<conversation, archVars, genVars, depVars, utilVars>>

\* EnhancedConversationalParser.parse_statements(conversation), called directly
ParseStatements ==
  /\ Len(conversation.statements) \in 1..MaxStatements
  /\ \A i \in 1..Len(conversation.statements) : Len(conversation.statements[i].content) < 100
  /\ \E entity_list \in Orderings(parsed(conversation, entity_cache).entities) :
       processing' = [NoProcessing EXCEPT
                        !.op = "parse_statements",
                        !.requirements = parse_statements(conversation, entity_cache, entity_list),
                        !.parser_ran = TRUE]
  /\ entity_cache' = parsed(conversation, entity_cache).cache
  /\ UNCHANGED <<conversation, archVars, genVars, depVars, utilVars>>

\* EnhancedConversationalParser.extract_entities(text), called directly on a statement's text
ExtractEntities ==
  /\ \E i \in 1..Len(conversation.statements) :
       /\ i <= MaxStatements
       /\ Len(conversation.statements[i].content) < 100
       /\ entity_cache' = extract_entities(conversation.statements[i].content, entity_cache).cache
  /\ UNCHANGED <<conversation, processing, archVars, genVars, depVars, utilVars>>

-----------------------------------------------------------------------------
(* Cloud deployment (src/cloud_deployment.py).                             *)

MaxDeployments == 2   \* deploy_application calls that reach package preparation

\* the keys of ProductionCloudDeployment.providers, with "unknown" added: a faulty variant
providers_with_unknown ==
  {"aws", "gcp", "azure", "vercel", "netlify", "railway", "render", "unknown"}

\* the keys of ProductionCloudDeployment.providers
providers == {"aws", "gcp", "azure", "vercel", "netlify", "railway", "render"}

\* the provider functions that shell out to a CLI and test its return code
cli_providers == {"vercel", "netlify", "railway"}

\* a faulty variant: the branch hands the bare message on
provider_branch_failure_bare(provider, message) == message

\* the `except Exception as e` of a provider function: the error it returns
provider_branch_failure(provider, message) ==
  (CASE provider = "aws" -> "AWS"
     [] provider = "gcp" -> "GCP"
     [] provider = "azure" -> "Azure"
     [] provider = "vercel" -> "Vercel"
     [] provider = "netlify" -> "Netlify"
     [] provider = "railway" -> "Railway"
     [] OTHER -> provider) \o " deployment failed: " \o message

NoDeployment ==
  [provider |-> "", files |-> {}, fault |-> "none", message |-> "", raised |-> FALSE,
   success |-> FALSE, error |-> None, logs |-> None,
   package_prepared |-> FALSE, provider_called |-> FALSE]

Failed(call, error, logs) == [call EXCEPT !.success = FALSE, !.error = error, !.logs = logs]

\* the provider function self.providers[provider], on the package files;
\* `fault` is where the environment fails it, `message` the exception or stderr text
deploy_func(call, package_files, fault, message) ==
  LET provider == call.provider IN
  IF provider = "render" THEN [call EXCEPT !.success = TRUE, !.logs = <<"Render deployment successful">>]
  ELSE IF provider = "gcp" /\ "Dockerfile" \notin package_files
  THEN \* _deploy_to_app_engine is not defined: an AttributeError inside the branch
       LET e == "'ProductionCloudDeployment' object has no attribute '_deploy_to_app_engine'" IN
       Failed([call EXCEPT !.fault = "branch", !.message = e],
              provider_branch_failure(provider, e), None)
  ELSE IF fault = "branch" THEN Failed(call, provider_branch_failure(provider, message), None)
  ELSE IF fault = "cli" /\ provider \in cli_providers THEN Failed(call, message, <<"">>)
  ELSE [call EXCEPT !.success = TRUE]

\* the file names _generate_deployment_files adds to the package
_generate_deployment_files(provider) ==
  CASE provider = "aws" -> {"buildspec.yml", "task-definition.json"}
    [] provider = "gcp" -> {"cloudbuild.yaml", "app.yaml"}
    [] provider = "azure" -> {"azure-pipelines.yml"}
    [] provider = "vercel" -> {"vercel.json"}
    [] provider = "netlify" -> {"netlify.toml", "_redirects"}
    [] provider = "railway" -> {"railway.json"}
    [] provider = "render" -> {"render.yaml"}
    [] OTHER -> {}

\* deploy_application: the DeploymentResult, and what the call did on its way
deploy_application(files, provider, fault, message) ==
  LET call == [NoDeployment EXCEPT !.provider = provider, !.files = files,
                                   !.fault = fault, !.message = message] IN
  IF provider \notin providers
  THEN Failed(call, "Unsupported provider: " \o provider, None)
  ELSE LET preparing == [call EXCEPT !.package_prepared = TRUE] IN
       IF fault = "prepare"
       THEN Failed(preparing, message, <<"Deployment failed: " \o message>>)
       ELSE deploy_func([preparing EXCEPT !.provider_called = TRUE],
                        files \cup _generate_deployment_files(provider), fault, message)

\* the provider strings callers pass
ProviderPool == providers \cup {"unknown", "AWS"}

\* the files of the application to deploy
DeployFilesPool == {{"main.py"}, {"main.py", "Dockerfile"}}

\* where the environment fails a call, for the providers it can fail there
FaultsOf(provider) ==
  {"none", "prepare"}
  \cup (IF provider \in providers \ {"render"} THEN {"branch"} ELSE {})
  \cup (IF provider \in cli_providers THEN {"cli"} ELSE {})

ExceptionMessages == {"No space left on device", "connection refused"}

DepIdle == deployment = NoDeployment /\ temp_dirs = 0 /\ provider_calls = <<>>

\* ProductionCloudDeployment.deploy_application(files, config)
DeployApplication ==
  /\ temp_dirs < MaxDeployments
  /\ \E provider \in ProviderPool, files \in DeployFilesPool, message \in ExceptionMessages :
       \E fault \in FaultsOf(provider) :
         LET result == deploy_application(files, provider, fault, message) IN
         /\ deployment' = result
         /\ temp_dirs' = IF result.package_prepared THEN temp_dirs + 1 ELSE temp_dirs
         /\ provider_calls' = IF result.provider_called
                              THEN Append(provider_calls, provider) ELSE provider_calls
  /\ UNCHANGED <<archVars, genVars, convVars, utilVars>>


-----------------------------------------------------------------------------
(* CodeGenerationService.generate_multi_language_code                     *)
(* (src/src/services/code_generation_service.py).                          *)

MaxLanguages == 3    \* entries of the languages argument

\* SystemConfig.max_concurrent_generations: the workers of the thread pool
max_concurrent_generations == 5

\* the task of one language: created, picked up by a worker thread, finished
Task(language) == [language |-> language, state |-> "pending", result |-> NoGeneration]

\* the task-creation loop: one task per requested language the generator supports
RECURSIVE create_tasks(_)
create_tasks(langs) ==
  IF Len(langs) = 0 THEN <<>>
  ELSE (IF Head(langs) \in Range(supported_languages) THEN <<Task(Head(langs))>> ELSE <<>>)
       \o create_tasks(Tail(langs))

\* a faulty variant: the loop over the gathered results stops at the first exception
RECURSIVE collect_until_failure(_, _)
collect_until_failure(ts, acc) ==
  IF Len(ts) = 0 \/ Head(ts).result.outcome = "raised" THEN acc
  ELSE collect_until_failure(Tail(ts), dict_put(acc, Head(ts).language, Head(ts).result))

\* the loop over zip(tasks, completed_tasks): exceptions are logged and skipped
RECURSIVE collect_results(_, _)
collect_results(ts, acc) ==
  IF Len(ts) = 0 THEN acc
  ELSE collect_results(Tail(ts),
                       IF Head(ts).result.outcome = "raised" THEN acc
                       ELSE dict_put(acc, Head(ts).language, Head(ts).result))

\* the languages lists callers pass
MultiLanguagePool == {"python", "rust", "go", "javascript"}

\* the architectures handed to generate_multi_language_code
MultiArchitectures ==
  {SystemArchitecture(comps, <<>>, <<"layered">>, <<>>,
                      [backend |-> <<"Python">>, frontend |-> <<>>,
                       database |-> <<"PostgreSQL">>, infrastructure |-> <<>>], "cloud") :
     comps \in {<<SystemComponent("UserService", "service", <<"Handle requests">>, <<>>, <<>>)>>,
                <<SystemComponent("APIGateway", "api_gateway", <<"Route">>, <<>>, <<>>),
                  SystemComponent("Main", "service", <<"Run">>, <<>>, <<>>)>>}}

MultiIdle == languages = <<>> /\ tasks = <<>> /\ results = <<>> /\ multi_call = "idle"

\* generate_multi_language_code(architecture, languages), up to the await
GenerateMultiLanguageCode ==
  /\ multi_call = "idle"
  /\ tasks' = create_tasks(languages)
  /\ multi_call' = "gathering"
  /\ UNCHANGED <<languages, results, coreVars, modelVars, cacheVars, metricVars, recVars>>

\* a free worker thread of the executor picks up a task
RunTask ==
  /\ multi_call = "gathering"
  /\ Cardinality({j \in 1..Len(tasks) : tasks[j].state = "running"}) < max_concurrent_generations
  /\ \E i \in 1..Len(tasks) :
       /\ tasks[i].state = "pending"
       /\ tasks' = [tasks EXCEPT ![i].state = "running"]
  /\ UNCHANGED <<languages, results, multi_call, coreVars, modelVars, cacheVars, metricVars, recVars>>

\* generator.generate_code(architecture, language) returns or raises in its worker thread
CompleteTask ==
  /\ multi_call = "gathering"
  /\ \E i \in 1..Len(tasks) :
       /\ tasks[i].state = "running"
       /\ tasks' = [tasks EXCEPT ![i].state = "done",
                                 ![i].result = enhanced_generate_code(architecture,
                                                                      tasks[i].language, "")]
  /\ UNCHANGED <<languages, results, multi_call, coreVars, modelVars, cacheVars, metricVars, recVars>>

\* asyncio.gather(..., return_exceptions=True) completes; the results dict is built and returned
GatherReturns ==
  /\ multi_call = "gathering"
  /\ \A i \in 1..Len(tasks) : tasks[i].state = "done"
  /\ results' = collect_results(tasks, <<>>)
  /\ multi_call' = "returned"
  /\ UNCHANGED <<languages, tasks, coreVars, modelVars, cacheVars, metricVars, recVars>>

-----------------------------------------------------------------------------
(* Core model objects built by callers (src/src/core/models.py).           *)

MaxMessages == 3     \* add_error and add_warning calls on one ProcessingResult

\* a ProcessingResult created with the default success, errors and warnings
ProcessingResult == [success |-> TRUE, errors |-> <<>>, warnings |-> <<>>]

\* a faulty variant: the error is appended and success is left alone
add_error_keeping_success(r, error) == [r EXCEPT !.errors = Append(r.errors, error)]

\* ProcessingResult.add_error
add_error(r, error) == [r EXCEPT !.errors = Append(r.errors, error), !.success = FALSE]

\* ProcessingResult.add_warning
add_warning(r, warning) == [r EXCEPT !.warnings = Append(r.warnings, warning)]

\* the error and warning texts callers pass
MessagePool == {"Parsing failed", ""}

\* a faulty variant: the content is tested without strip()
statement_post_init_unstripped(content, confidence) ==
  IF content = "" THEN "Statement content cannot be empty"
  ELSE IF ~(0 <= confidence /\ confidence <= 10) THEN "Confidence must be between 0 and 1"
  ELSE ""

\* Statement.__post_init__: the message of the ValueError it raises, or "".
\* confidence is counted in tenths.
statement_post_init(content, confidence) ==
  IF strip(content) = "" THEN "Statement content cannot be empty"
  ELSE IF ~(0 <= confidence /\ confidence <= 10) THEN "Confidence must be between 0 and 1"
  ELSE ""

NoStatementCall ==
  [content |-> "", confidence |-> 0, outcome |-> "none", error |-> "", message |-> "",
   statement |-> None]

\* Statement(content, {}, now, "user", FUNCTIONAL, confidence): the object, or the ValueError
construct_statement(content, confidence) ==
  LET call == [NoStatementCall EXCEPT !.content = content, !.confidence = confidence]
      invalid == statement_post_init(content, confidence)
  IN IF invalid # ""
     THEN [call EXCEPT !.outcome = "raised", !.error = "ValueError", !.message = invalid]
     ELSE [call EXCEPT !.outcome = "returned",
                       !.statement = [Statement(content, "{}", "t0", "user", "functional")
                                        EXCEPT !.confidence = confidence]]

\* the content and confidence arguments callers pass (confidence in tenths)
ContentPool == {"", " ", " \t\n ", "Create REST API", " x ", "a"}
ConfidencePool == {-1, 0, 5, 10, 11, 100}

ModelIdle ==
  /\ processing_result = ProcessingResult /\ result_op = "none" /\ error_calls = 0
  /\ statement_call = NoStatementCall

\* processing_result.add_error(error)
AddError ==
  /\ Len(processing_result.errors) + Len(processing_result.warnings) < MaxMessages
  /\ \E error \in MessagePool : processing_result' = add_error(processing_result, error)
  /\ result_op' = "add_error"
  /\ error_calls' = error_calls + 1
  /\ UNCHANGED <<statement_call, coreVars, multiVars, cacheVars, metricVars, recVars>>

\* processing_result.add_warning(warning)
AddWarning ==
  /\ Len(processing_result.errors) + Len(processing_result.warnings) < MaxMessages
  /\ \E warning \in MessagePool : processing_result' = add_warning(processing_result, warning)
  /\ result_op' = "add_warning"
  /\ UNCHANGED <<error_calls, statement_call, coreVars, multiVars, cacheVars, metricVars, recVars>>

\* Statement(content=..., confidence=...)
ConstructStatement ==
  /\ \E content \in ContentPool, confidence \in ConfidencePool :
       statement_call' = construct_statement(content, confidence)
  /\ UNCHANGED <<processing_result, result_op, error_calls, coreVars, multiVars, cacheVars, metricVars, recVars>>

-----------------------------------------------------------------------------
(* MemoryCache (src/src/utils/cache.py).                                   *)

MaxTicks == 2        \* single seconds the clock advances by, before and after its long step

\* MemoryCache.__init__: default_ttl
default_ttl == 3600

\* d without key k
dict_del(d, k) == IF DOMAIN d \ {k} = {} THEN <<>> ELSE [x \in DOMAIN d \ {k} |-> d[x]]

\* a faulty variant: an entry counts as expired from its expiry time on
is_expired_from_expiry(entry, t) == t >= entry.expiry

\* MemoryCache._is_expired, with datetime.now() = t
_is_expired(entry, t) == t > entry.expiry

\* `ttl or self.default_ttl`; an omitted ttl (None) is <<>>, a given one is <<ttl>>
ttl_or_default(ttl) == IF ttl = <<>> \/ ttl[1] = 0 THEN default_ttl ELSE ttl[1]

\* MemoryCache.set
cache_set(c, key, value, ttl, t) ==
  dict_put(c, key, [value |-> value, expiry |-> t + ttl_or_default(ttl)])

\* MemoryCache.get: the value returned and the cache it leaves
cache_get(c, key, t) ==
  IF key \in DOMAIN c
  THEN IF _is_expired(c[key], t)
       THEN [value |-> None, cache |-> dict_del(c, key)]
       ELSE [value |-> c[key].value, cache |-> c]
  ELSE [value |-> None, cache |-> c]

\* MemoryCache.delete
cache_delete(c, key) == IF key \in DOMAIN c THEN dict_del(c, key) ELSE c

\* MemoryCache.clear
cache_clear(c) == <<>>

CacheKeys == {"arch", "code"}
CacheValues == {"v1", "v2"}
TtlPool == {<<>>, <<0>>, <<1>>, <<-1>>}

NoGet == [key |-> None, value |-> None]

CacheIdle == memory_cache = <<>> /\ now = 0 /\ got = NoGet /\ live = <<>>

\* cache.set(key, value, ttl)
CacheSet ==
  /\ \E key \in CacheKeys, value \in CacheValues, ttl \in TtlPool :
       /\ memory_cache' = cache_set(memory_cache, key, value, ttl, now)
       /\ live' = dict_put(live, key, [value |-> value, expiry |-> now + ttl_or_default(ttl)])
  /\ got' = NoGet
  /\ UNCHANGED <<now, coreVars, multiVars, modelVars, metricVars, recVars>>

\* cache.get(key)
CacheGet ==
  /\ \E key \in CacheKeys :
       /\ memory_cache' = cache_get(memory_cache, key, now).cache
       /\ got' = [key |-> key, value |-> cache_get(memory_cache, key, now).value]
  /\ UNCHANGED <<now, live, coreVars, multiVars, modelVars, metricVars, recVars>>

\* cache.delete(key)
CacheDelete ==
  /\ \E key \in CacheKeys :
       /\ memory_cache' = cache_delete(memory_cache, key)
       /\ live' = dict_del(live, key)
  /\ got' = NoGet
  /\ UNCHANGED <<now, coreVars, multiVars, modelVars, metricVars, recVars>>

\* cache.clear()
CacheClear ==
  /\ memory_cache' = cache_clear(memory_cache)
  /\ live' = <<>>
  /\ got' = NoGet
  /\ UNCHANGED <<now, coreVars, multiVars, modelVars, metricVars, recVars>>

\* time passes between two calls
AdvanceClock ==
  /\ \/ now % default_ttl < MaxTicks /\ now' = now + 1
     \/ now < default_ttl /\ now' = now + default_ttl
  /\ got' = NoGet
  /\ UNCHANGED <<memory_cache, live, coreVars, multiVars, modelVars, metricVars, recVars>>

-----------------------------------------------------------------------------
(* InMemoryMetricsCollector (src/src/utils/metrics.py).                    *)

MaxCalls == 3        \* metrics calls made by all threads together

\* InMemoryMetricsCollector.__init__: max_history
max_history == 1000

Threads == {"t1", "t2"}

\* _create_metric_key; tags is the list sorted(tags.items()), <<>> for no tags
_create_metric_key(metric, tags) ==
  IF Len(tags) = 0 THEN metric
  ELSE metric \o "[" \o join(",", [i \in 1..Len(tags) |-> tags[i][1] \o "=" \o tags[i][2]])
              \o "]"

\* a faulty variant: the lock is handed out while another thread holds it
lock_always_free(l) == TRUE

\* threading.Lock.acquire returns when the lock is free
lock_free(l) == l = "free"

\* defaultdict.__getitem__: a missing key is inserted with the default value
defaultdict_get(d, key, default) == IF key \in DOMAIN d THEN d ELSE dict_put(d, key, default)

\* deque(maxlen=max_history).append
deque_append(q, x) ==
  LET a == Append(q, x) IN IF Len(a) > max_history THEN Tail(a) ELSE a

RECURSIVE seq_sum(_)
seq_sum(q) == IF Len(q) = 0 THEN 0 ELSE Head(q) + seq_sum(Tail(q))

\* the timing_stats entry of one operation: count, sum (avg is sum / count), min, max
timing_stats(durations) ==
  [count |-> Len(durations), sum |-> seq_sum(durations),
   min |-> CHOOSE d \in Range(durations) : \A e \in Range(durations) : d <= e,
   max |-> CHOOSE d \in Range(durations) : \A e \in Range(durations) : d >= e]

\* the dict get_metrics_summary builds
metrics_summary(cs, gs, ts) ==
  [counters |-> cs,
   gauges |-> [k \in DOMAIN gs |-> gs[k].value],
   timing_stats |-> [o \in {x \in DOMAIN ts : Len(ts[x]) > 0} |-> timing_stats(ts[o])]]

NoMetricsSummary == [taken |-> FALSE, after |-> 0, counters |-> <<>>, gauges |-> <<>>]

IdleThread ==
  [pc |-> "idle", op |-> "none", key |-> "", value |-> 0, read |-> 0, tags |-> <<>>,
   waited |-> FALSE]

\* the calls the threads make: (op, metric or operation, tags, value)
MetricCalls ==
  { [op |-> "increment_counter", metric |-> "requests", tags |-> <<>>, value |-> 0],
    [op |-> "increment_counter", metric |-> "requests", tags |-> <<<<"env", "prod">>>>,
     value |-> 0],
    [op |-> "record_gauge", metric |-> "queue_depth", tags |-> <<>>, value |-> 42],
    [op |-> "record_gauge", metric |-> "queue_depth", tags |-> <<>>, value |-> 7],
    [op |-> "record_processing_time", metric |-> "parse", tags |-> <<>>, value |-> 3],
    [op |-> "get_metrics_summary", metric |-> "", tags |-> <<>>, value |-> 0] }

MetricFrame == UNCHANGED <<coreVars, multiVars, modelVars, cacheVars, recVars>>

\* a thread enters one of the four methods and reaches `with self.lock`;
\* `waited` notes whether another thread held the lock at that moment
BeginCall(t) ==
  /\ threads[t].pc = "idle"
  /\ Len(completed) + Cardinality({u \in Threads : threads[u].pc # "idle"}) < MaxCalls
  /\ \E call \in MetricCalls :
       threads' = [threads EXCEPT ![t] = [pc |-> "acquire", op |-> call.op,
                                          key |-> call.metric, value |-> call.value,
                                          read |-> 0, tags |-> call.tags,
                                          waited |-> lock # "free"]]
  /\ UNCHANGED <<counters, gauges, timings, lock, completed, summary>>
  /\ MetricFrame

\* `with self.lock`: the thread gets the lock
AcquireLock(t) ==
  /\ threads[t].pc = "acquire"
  /\ lock_free(lock)
  /\ lock' = t
  /\ threads' = [threads EXCEPT ![t].pc = "locked"]
  /\ UNCHANGED <<counters, gauges, timings, completed, summary>>
  /\ MetricFrame

\* increment_counter: key = _create_metric_key(...); the read half of counters[key] += 1
ReadCounter(t) ==
  /\ threads[t].pc = "locked" /\ threads[t].op = "increment_counter"
  /\ LET key == _create_metric_key(threads[t].key, threads[t].tags) IN
     /\ counters' = defaultdict_get(counters, key, 0)
     /\ threads' = [threads EXCEPT ![t].pc = "write", ![t].key = key,
                                   ![t].read = defaultdict_get(counters, key, 0)[key]]
  /\ UNCHANGED <<gauges, timings, lock, completed, summary>>
  /\ MetricFrame

\* increment_counter: the write half of counters[key] += 1
WriteCounter(t) ==
  /\ threads[t].pc = "write"
  /\ counters' = dict_put(counters, threads[t].key, threads[t].read + 1)
  /\ threads' = [threads EXCEPT ![t].pc = "release"]
  /\ UNCHANGED <<gauges, timings, lock, completed, summary>>
  /\ MetricFrame

\* record_gauge: the body of the with block
RecordGauge(t) ==
  /\ threads[t].pc = "locked" /\ threads[t].op = "record_gauge"
  /\ LET key == _create_metric_key(threads[t].key, threads[t].tags) IN
     /\ gauges' = dict_put(gauges, key, [value |-> threads[t].value, timestamp |-> "now"])
     /\ threads' = [threads EXCEPT ![t].pc = "release", ![t].key = key]
  /\ UNCHANGED <<counters, timings, lock, completed, summary>>
  /\ MetricFrame

\* record_processing_time: the body of the with block
RecordProcessingTime(t) ==
  /\ threads[t].pc = "locked" /\ threads[t].op = "record_processing_time"
  /\ LET operation == threads[t].key
         created == defaultdict_get(timings, operation, <<>>)
     IN timings' = dict_put(created, operation, deque_append(created[operation], threads[t].value))
  /\ threads' = [threads EXCEPT ![t].pc = "release"]
  /\ UNCHANGED <<counters, gauges, lock, completed, summary>>
  /\ MetricFrame

\* get_metrics_summary: the body of the with block
GetMetricsSummary(t) ==
  /\ threads[t].pc = "locked" /\ threads[t].op = "get_metrics_summary"
  /\ LET s == metrics_summary(counters, gauges, timings) IN
     summary' = [taken |-> TRUE, after |-> Len(completed),
                 counters |-> s.counters, gauges |-> s.gauges]
  /\ threads' = [threads EXCEPT ![t].pc = "release"]
  /\ UNCHANGED <<counters, gauges, timings, lock, completed>>
  /\ MetricFrame

\* the with block ends: the lock is released and the call returns
ReleaseLock(t) ==
  /\ threads[t].pc = "release"
  /\ lock' = "free"
  /\ completed' = Append(completed, [op |-> threads[t].op, key |-> threads[t].key,
                                     value |-> threads[t].value,
                                     waited |-> threads[t].waited])
  /\ threads' = [threads EXCEPT ![t] = IdleThread]
  /\ UNCHANGED <<counters, gauges, timings, summary>>
  /\ MetricFrame

-----------------------------------------------------------------------------
(* Initial state of the utilities.                                         *)

-----------------------------------------------------------------------------
(* The recursive process of the prototype (src/conversation_processor.py,  *)
(* with the dataclasses of src/statement_reality_system.py).               *)

MaxRequirements == 3   \* copies of one requirement text in a functional list

\* Requirements
Requirements(functional, non_functional, constraints, business_rules, preferences) ==
  [functional |-> functional, non_functional |-> non_functional,
   constraints |-> constraints, business_rules |-> business_rules,
   preferences |-> preferences]

\* ArchitecturalComponent, by its name, dependencies and abstraction level
ArchitecturalComponent(name, dependencies, abstraction_level) ==
  [name |-> name, dependencies |-> dependencies,
   constraints |-> [abstraction_level |-> abstraction_level]]

\* ConcreteArchitecturalInference.infer_architecture: the same Architecture for
\* every Requirements.  patterns holds the elements of the list, since the order
\* of a list(set()) is not fixed; constraints and quality_attributes hold the
\* keys of the dicts.
concrete_infer_architecture(req) ==
  [components |->
     << ArchitecturalComponent("ConversationalIntentParser", <<>>, "n-1"),
        ArchitecturalComponent("ArchitecturalInferenceEngine",
                               <<"ConversationalIntentParser">>, "n-1"),
        ArchitecturalComponent("AbstractionGenerator",
                               <<"ArchitecturalInferenceEngine">>, "n-1"),
        ArchitecturalComponent("ImplementationSynthesizer", <<"AbstractionGenerator">>, "n"),
        ArchitecturalComponent("RealityManifestationEngine",
                               <<"ImplementationSynthesizer">>, "n") >>,
   patterns |-> {"Layered Architecture", "Abstract Factory Pattern", "Strategy Pattern",
                 "Template Method Pattern", "Observer Pattern"},
   relationships |->
     [n \in {"ConversationalIntentParser", "ArchitecturalInferenceEngine",
             "AbstractionGenerator", "ImplementationSynthesizer",
             "RealityManifestationEngine"} |->
        CASE n = "ConversationalIntentParser" -> <<"ArchitecturalInferenceEngine">>
          [] n = "ArchitecturalInferenceEngine" -> <<"AbstractionGenerator">>
          [] n = "AbstractionGenerator" -> <<"ImplementationSynthesizer">>
          [] n = "ImplementationSynthesizer" -> <<"RealityManifestationEngine">>
          [] n = "RealityManifestationEngine" -> <<"ConversationalIntentParser">>],
   constraints |-> {"abstraction_boundary", "recursion_support", "language_agnostic",
                    "self_referential"},
   quality_attributes |-> {"modularity", "extensibility", "language_independence",
                           "self_reflection", "recursive_capability"}]

\* _is_implementable
_is_implementable(req) == Len(req.functional) + Len(req.non_functional) <= 5

\* a base case that looks at the requirements only
base_case_without_depth(req, depth) == _is_implementable(req)

\* the base case of recursive_architectural_process
base_case(req, depth) == _is_implementable(req) \/ depth > 3

\* _decompose_requirements
_decompose_requirements(req) ==
  << Requirements(SelectSeq(req.functional, LAMBDA r : contains("parse", lower(r))),
                  <<>>, <<>>, <<>>, <<>>),
     Requirements(SelectSeq(req.functional, LAMBDA r : contains("architecture", lower(r))),
                  req.non_functional, req.constraints, <<>>, <<>>) >>

\* dict.update
dict_update(d, e) ==
  [k \in DOMAIN d \cup DOMAIN e |-> IF k \in DOMAIN e THEN e[k] ELSE d[k]]

\* the loop of _compose_architectures
RECURSIVE compose_loop(_, _)
compose_loop(sub_architectures, acc) ==
  IF Len(sub_architectures) = 0 THEN acc
  ELSE LET arch == Head(sub_architectures) IN
       compose_loop(Tail(sub_architectures),
                    [acc EXCEPT !.components = @ \o arch.components,
                                !.patterns = @ \cup arch.patterns,
                                !.relationships = dict_update(@, arch.relationships)])

\* _compose_architectures
_compose_architectures(sub_architectures) ==
  compose_loop(sub_architectures,
               [components |-> <<>>, patterns |-> {}, relationships |-> <<>>,
                constraints |-> IF Len(sub_architectures) > 0
                                THEN sub_architectures[1].constraints ELSE {},
                quality_attributes |-> IF Len(sub_architectures) > 0
                                       THEN sub_architectures[1].quality_attributes ELSE {}])

\* one call of recursive_architectural_process in progress
CallFrame(req, depth) == [requirements |-> req, depth |-> depth, sub_architectures |-> <<>>]

Copies(text, n) == [i \in 1..n |-> text]

\* functional lists: copies of one text followed by copies of another
FunctionalLists ==
  {Copies(t, n) \o Copies(u, m) :
     t \in {"Parse text", "Parse architecture"}, u \in {"Infer architecture", "Deploy"},
     n \in 0..MaxRequirements, m \in 0..MaxRequirements}
  \cup {Copies("Parse architecture", n) : n \in 0..(2 * MaxRequirements)}

LegacyRequirements ==
  {Requirements(f, nf, <<"Bottom-up">>, <<>>, <<>>) :
     f \in FunctionalLists, nf \in {<<>>, Copies("Universal", 2 * MaxRequirements)}}

\* no call has returned
NotReturned == [returned |-> FALSE]

\* before the caller's call
NotCalled ==
  /\ call_stack = <<>>
  /\ returned = NotReturned
  /\ total_calls = 0
  /\ base_calls = 0
  /\ finished = {}

RecIdle == legacy_requirements = Requirements(<<>>, <<>>, <<>>, <<>>, <<>>) /\ NotCalled

RecFrame == UNCHANGED <<legacy_requirements, coreVars, multiVars, modelVars, cacheVars,
                        metricVars>>

\* the caller's recursive_architectural_process(requirements): depth is 0
CallRecursiveProcess ==
  /\ call_stack = <<>> /\ returned = NotReturned /\ total_calls = 0
  /\ call_stack' = <<CallFrame(legacy_requirements, 0)>>
  /\ total_calls' = 1
  /\ UNCHANGED <<returned, base_calls, finished>>
  /\ RecFrame

\* a call returns `arch` to the call that made it, or to the caller
ReturnArchitecture(arch, base) ==
  LET frame == call_stack[Len(call_stack)]
      rest == SubSeq(call_stack, 1, Len(call_stack) - 1)
  IN /\ call_stack' =
          IF Len(rest) = 0 THEN rest
          ELSE [rest EXCEPT ![Len(rest)].sub_architectures = Append(@, arch)]
     /\ returned' = IF Len(rest) = 0 THEN arch ELSE returned
     /\ base_calls' = IF base THEN base_calls + 1 ELSE base_calls
     /\ finished' = finished \cup {[depth |-> frame.depth, base |-> base,
                                     calls |-> Len(frame.sub_architectures)]}
     /\ UNCHANGED total_calls
     /\ RecFrame

\* the base case: return self.inference_engine.infer_architecture(requirements)
ReturnInferred ==
  /\ Len(call_stack) > 0
  /\ LET frame == call_stack[Len(call_stack)] IN
     /\ base_case(frame.requirements, frame.depth)
     /\ ReturnArchitecture(concrete_infer_architecture(frame.requirements), TRUE)

\* one turn of the loop over sub_requirements: the recursive call
RecursiveCall ==
  /\ Len(call_stack) > 0
  /\ LET frame == call_stack[Len(call_stack)]
         sub_requirements == _decompose_requirements(frame.requirements)
     IN /\ ~base_case(frame.requirements, frame.depth)
        /\ Len(frame.sub_architectures) < Len(sub_requirements)
        /\ call_stack' =
             Append(call_stack,
                    CallFrame(sub_requirements[Len(frame.sub_architectures) + 1],
                              frame.depth + 1))
  /\ total_calls' = total_calls + 1
  /\ UNCHANGED <<returned, base_calls, finished>>
  /\ RecFrame

\* after the loop: return self._compose_architectures(sub_architectures)
ReturnComposed ==
  /\ Len(call_stack) > 0
  /\ LET frame == call_stack[Len(call_stack)] IN
     /\ ~base_case(frame.requirements, frame.depth)
     /\ Len(frame.sub_architectures) = Len(_decompose_requirements(frame.requirements))
     /\ ReturnArchitecture(_compose_architectures(frame.sub_architectures), FALSE)

MetricsIdle ==
  /\ counters = <<>> /\ gauges = <<>> /\ timings = <<>>
  /\ lock = "free"
  /\ threads = [t \in Threads |-> IdleThread]
  /\ completed = <<>>
  /\ summary = NoMetricsSummary

UtilIdle ==
  /\ MultiIdle /\ ModelIdle /\ CacheIdle /\ MetricsIdle /\ RecIdle

-----------------------------------------------------------------------------
(* Specifications.                                                         *)

\* the optimizer and the validator / auto-fixer on caller-built architectures
InitOpt ==
  /\ requirements \in FlagRequirements
  /\ architecture \in CallerArchitectures
  /\ conversation = Conversation(<<>>)
  /\ ArchIdle /\ GenIdle /\ ConvIdle /\ DepIdle /\ UtilIdle

NextOpt == OptimizeArchitecture \/ ValidateAndAutoFix

SpecOpt == InitOpt /\ [][NextOpt]_vars

\* the two code generators on caller-built architectures
InitGen ==
  /\ requirements = SystemRequirements(<<>>, <<>>, <<>>, <<>>, <<>>, <<>>, 1)
  /\ architecture \in GeneratorArchitectures
  /\ conversation = Conversation(<<>>)
  /\ ArchIdle /\ GenIdle /\ ConvIdle /\ DepIdle /\ UtilIdle

NextGen == EnhancedGenerateCode \/ ProductionGenerateCode

SpecGen == InitGen /\ [][NextGen]_vars

\* the conversation service and the parser on one conversation
InitConv ==
  /\ requirements = EmptyRequirements
  /\ architecture = NoArchitecture
  /\ conversation \in ConversationPool
  /\ ArchIdle /\ GenIdle /\ ConvIdle /\ DepIdle /\ UtilIdle

NextConv == ProcessConversation \/ ParseStatements \/ ExtractEntities

SpecConv == InitConv /\ [][NextConv]_vars

\* the parser alone on conversations of every statement type
InitParse ==
  /\ requirements = EmptyRequirements
  /\ architecture = NoArchitecture
  /\ conversation \in ParserConversations
  /\ ArchIdle /\ GenIdle /\ ConvIdle /\ DepIdle /\ UtilIdle

NextParse == ParseStatements

SpecParse == InitParse /\ [][NextParse]_vars

\* the deployment engine
InitDeploy ==
  /\ requirements = EmptyRequirements
  /\ architecture = NoArchitecture
  /\ conversation = Conversation(<<>>)
  /\ ArchIdle /\ GenIdle /\ ConvIdle /\ DepIdle /\ UtilIdle

NextDeploy == DeployApplication

SpecDeploy == InitDeploy /\ [][NextDeploy]_vars

\* the inference engine and the architecture service on requirements records
InitArch ==
  /\ requirements \in RequirementsPool
  /\ architecture = NoArchitecture
  /\ conversation = Conversation(<<>>)
  /\ ArchIdle /\ GenIdle /\ ConvIdle /\ DepIdle /\ UtilIdle

NextArch == InferArchitecture \/ InferAndValidateArchitecture \/ InferForOtherClient

SpecArch == InitArch /\ [][NextArch]_vars

\* the inference engine alone on requirements records
InitInfer ==
  /\ requirements \in InferRequirements
  /\ architecture = NoArchitecture
  /\ conversation = Conversation(<<>>)
  /\ ArchIdle /\ GenIdle /\ ConvIdle /\ DepIdle /\ UtilIdle

NextInfer == InferArchitecture

SpecInfer == InitInfer /\ [][NextInfer]_vars

\* the validator and the auto-fixer on architectures with faults
InitFix ==
  /\ requirements = SystemRequirements(<<>>, <<>>, <<>>, <<>>,
                                       [k \in {"security"} |-> TRUE], <<>>, 1)
  /\ architecture \in FixArchitectures
  /\ conversation = Conversation(<<>>)
  /\ ArchIdle /\ GenIdle /\ ConvIdle /\ DepIdle /\ UtilIdle

NextFix == ValidateAndAutoFix \/ OptimizeArchitecture

SpecFix == InitFix /\ [][NextFix]_vars

CoreIdle ==
  /\ requirements = EmptyRequirements
  /\ architecture = NoArchitecture
  /\ conversation = Conversation(<<>>)
  /\ ArchIdle /\ GenIdle /\ ConvIdle /\ DepIdle

\* generate_multi_language_code on one architecture and one languages list
InitMulti ==
  /\ requirements = EmptyRequirements
  /\ architecture \in MultiArchitectures
  /\ conversation = Conversation(<<>>)
  /\ ArchIdle /\ GenIdle /\ ConvIdle /\ DepIdle
  /\ languages \in SeqsUpTo(MultiLanguagePool, MaxLanguages)
  /\ tasks = <<>> /\ results = <<>> /\ multi_call = "idle"
  /\ ModelIdle /\ CacheIdle /\ MetricsIdle /\ RecIdle

NextMulti == GenerateMultiLanguageCode \/ RunTask \/ CompleteTask \/ GatherReturns

SpecMulti == InitMulti /\ [][NextMulti]_vars

\* the objects of core/models.py that callers build and update
InitModels == CoreIdle /\ UtilIdle

NextModels == AddError \/ AddWarning \/ ConstructStatement

SpecModels == InitModels /\ [][NextModels]_vars

\* one MemoryCache and the clock
InitCache == CoreIdle /\ UtilIdle

NextCache == CacheSet \/ CacheGet \/ CacheDelete \/ CacheClear \/ AdvanceClock

SpecCache == InitCache /\ [][NextCache]_vars

\* recursive_architectural_process on one Requirements; the interpreter runs the
\* call to its end
InitRec ==
  /\ CoreIdle
  /\ MultiIdle /\ ModelIdle /\ CacheIdle /\ MetricsIdle
  /\ legacy_requirements \in LegacyRequirements /\ NotCalled

NextRec == CallRecursiveProcess \/ ReturnInferred \/ RecursiveCall \/ ReturnComposed

SpecRec == InitRec /\ [][NextRec]_vars /\ WF_vars(NextRec)

\* one InMemoryMetricsCollector shared by the threads
InitMetrics == CoreIdle /\ UtilIdle

NextMetrics ==
  \E t \in Threads :
    \/ BeginCall(t) \/ AcquireLock(t) \/ ReadCounter(t) \/ WriteCounter(t)
    \/ RecordGauge(t) \/ RecordProcessingTime(t) \/ GetMetricsSummary(t) \/ ReleaseLock(t)

SpecMetrics == InitMetrics /\ [][NextMetrics]_vars

-----------------------------------------------------------------------------
(* Properties of the optimizer (SpecOpt).                                  *)

SecurityOnly(qa) ==
  /\ truthy_get(qa, "security")
  /\ ~truthy_get(qa, "performance")
  /\ ~truthy_get(qa, "scalability")

NamedGateways(a) == {i \in 1..Len(a.components) : a.components[i].name = "APIGateway"}

\* C1: a second _optimize_architecture run in a row, with the same requirements,
\* leaves the component names and types as the first run left them: it appends
\* no component.
C1_SecondRunAppendsNothing ==
  (lastOp = "optimize" /\ optRuns >= 2) => NameTypes(architecture) = NameTypes(before)

\* C7: when the architecture had no api_gateway-type component and the flags are
\* security only, the optimized architecture has exactly one component named
\* "APIGateway", and it has type api_gateway.
C7_ExactlyOneGateway ==
  (/\ lastOp = "optimize" /\ optRuns = 1
   /\ SecurityOnly(callReq.quality_attributes)
   /\ ~has_type(before.components, "api_gateway"))
  => /\ Cardinality(NamedGateways(architecture)) = 1
     /\ \A i \in NamedGateways(architecture) :
          architecture.components[i].component_type = "api_gateway"

-----------------------------------------------------------------------------
(* Properties of architecture inference (SpecArch).                        *)

C9_TemplatedEntitiesPresent ==
  (lastOp = "infer_and_validate_architecture" /\ ~inferRaised) =>
    /\ \A i \in 1..Len(requirements.extracted_entities) :
         LET entity == requirements.extracted_entities[i] IN
         entity \in DOMAIN ComponentTemplates =>
           has_name(architecture.components, ComponentTemplates[entity].name)
    /\ Len(architecture.patterns) > 0

\* the pipeline returned an architecture for requirements that name authentication
C9_Witness ==
  /\ lastOp = "infer_and_validate_architecture" /\ ~inferRaised
  /\ \E i \in 1..Len(requirements.extracted_entities) :
       requirements.extracted_entities[i] = "authentication"
  /\ has_name(architecture.components, "AuthenticationService")

-----------------------------------------------------------------------------
(* Properties of code generation (SpecGen).                                *)

\* the supported set the contract names
SupportedSet == {"python", "rust", "go", "typescript", "java", "cpp"}

SupportedCall(generator) ==
  /\ generation.generator = generator
  /\ generation.language \in SupportedSet

UnsupportedCall ==
  /\ generation.generator # "none"
  /\ generation.language \notin SupportedSet

\* C2: the enhanced generator, called with a supported language and the framework
\* omitted (so that the language's default framework is chosen), returns a
\* GeneratedCode whose files map is non-empty and holds its entry_point.
C2_EntryPointGenerated ==
  (SupportedCall("enhanced")
   /\ generation.framework = _get_default_framework(generation.language))
  => /\ generation.outcome = "returned"
     /\ DOMAIN generation.files # {}
     /\ generation.entry_point \in DOMAIN generation.files

-----------------------------------------------------------------------------
(* Properties of conversation processing (SpecConv).                       *)

\* a statement _validate_statement has to reject
StructurallyInvalid(statement) ==
  \/ IsBlank(statement.content)
  \/ Len(statement.content) > 10000
  \/ \E f \in {"context", "timestamp", "speaker", "statement_type"} : statement[f] = None

EmptyOrInvalid(conv) ==
  \/ Len(conv.statements) = 0
  \/ \E i \in 1..Len(conv.statements) : StructurallyInvalid(conv.statements[i])

C10_EntitiesFromVocabulary ==
  processing.op = "parse_statements" =>
    /\ ~processing.raised
    /\ \A e \in Range(processing.requirements.extracted_entities) :
         /\ e \in Range(technical_keywords)
         /\ \E i \in 1..Len(conversation.statements) :
              contains(e, lower(conversation.statements[i].content))

\* the parser has found the keyword of an upper-case word
C10_Witness ==
  /\ processing.op = "parse_statements"
  /\ Len(conversation.statements) >= 1
  /\ "jwt" \in Range(processing.requirements.extracted_entities)

-----------------------------------------------------------------------------
(* Properties of deployment (SpecDeploy).                                  *)

\* the providers the contract names
SupportedProviderSet == {"aws", "gcp", "azure", "vercel", "netlify", "railway", "render"}

Deployed == deployment # NoDeployment

\* C5: deploy_application with a provider outside the supported set returns
\* success=False with error "Unsupported provider: <provider>", raises nothing,
\* prepares no package and invokes no provider function.
C5_UnsupportedProviderRefused ==
  [][(deployment' # NoDeployment /\ deployment'.provider \notin SupportedProviderSet) =>
       /\ ~deployment'.raised
       /\ deployment'.success = FALSE
       /\ deployment'.error = "Unsupported provider: " \o deployment'.provider
       /\ ~deployment'.package_prepared /\ ~deployment'.provider_called
       /\ temp_dirs' = temp_dirs /\ provider_calls' = provider_calls]_vars

\* an unsupported provider was refused after an earlier deployment, whose
\* temporary directory and provider call are all there is
C5_Witness ==
  /\ deployment.provider = "unknown"
  /\ deployment.error = "Unsupported provider: unknown"
  /\ temp_dirs = 1 /\ Len(provider_calls) = 1

BranchLabel ==
  [aws |-> "AWS", gcp |-> "GCP", azure |-> "Azure", vercel |-> "Vercel",
   netlify |-> "Netlify", railway |-> "Railway"]

-----------------------------------------------------------------------------
(* Properties of generate_multi_language_code (SpecMulti).                 *)

\* the tasks whose generator call returned a GeneratedCode
ReturnedTasks == {i \in 1..Len(tasks) : tasks[i].result.outcome = "returned"}

\* C11: when generate_multi_language_code has returned, every task has completed
\* or failed, every requested supported language had a task, and the keys of the
\* result map are exactly the requested supported languages whose generation
\* returned, each mapped to the code generated for it.
C11_ResultsAreTheSuccessfulLanguages ==
  multi_call = "returned" =>
    /\ \A i \in 1..Len(tasks) : tasks[i].state = "done"
    /\ \A l \in Range(languages) \cap SupportedSet :
         \E i \in 1..Len(tasks) : tasks[i].language = l
    /\ DOMAIN results =
         {l \in Range(languages) \cap SupportedSet :
            \E i \in ReturnedTasks : tasks[i].language = l}
    /\ \A l \in DOMAIN results : results[l].language = l /\ results[l].outcome = "returned"

\* the call returned for a list with a language that failed before one that
\* succeeded, and an unsupported one
C11_Witness ==
  /\ multi_call = "returned"
  /\ languages = <<"go", "javascript", "python">>
  /\ DOMAIN results = {"python"}
  /\ \E i \in 1..Len(tasks) : tasks[i].language = "go" /\ tasks[i].result.outcome = "raised"

-----------------------------------------------------------------------------
(* Properties of the core model objects (SpecModels).                      *)

\* C12: on a ProcessingResult created with the defaults, success is True exactly
\* when no add_error call has happened, a False success never becomes True
\* again, and an add_warning call changes neither success nor errors.
C12_SuccessIffNoErrorAdded ==
  [][ /\ processing_result.success <=> error_calls = 0
      /\ processing_result'.success <=> error_calls' = 0
      /\ ~processing_result.success => ~processing_result'.success
      /\ (result_op' = "add_warning" /\ processing_result' # processing_result) =>
           /\ processing_result'.success = processing_result.success
           /\ processing_result'.errors = processing_result.errors ]_vars

\* a warning was added after an error: success stayed False
C12_Witness ==
  /\ result_op = "add_warning"
  /\ error_calls = 1 /\ Len(processing_result.errors) = 1
  /\ Len(processing_result.warnings) = 2
  /\ ~processing_result.success

\* the contents that are empty or hold only whitespace
WhitespaceOnly == {"", " ", " \t\n "}

\* C15: constructing a Statement whose content is empty or whitespace-only, or
\* whose confidence is below 0 or above 1, raises ValueError and yields no
\* object; a Statement that was constructed has content that is neither empty
\* nor whitespace-only and a confidence from 0 to 1.
C15_StatementValidated ==
  statement_call.outcome # "none" =>
    /\ (\/ statement_call.content \in WhitespaceOnly
        \/ statement_call.confidence < 0
        \/ statement_call.confidence > 10)
       => /\ statement_call.outcome = "raised"
          /\ statement_call.error = "ValueError"
          /\ statement_call.statement = None
    /\ statement_call.outcome = "returned" =>
         /\ statement_call.statement.content \notin WhitespaceOnly
         /\ statement_call.statement.confidence \in 0..10

\* a whitespace-only content with a valid confidence was refused
C15_Witness ==
  /\ statement_call.outcome = "raised"
  /\ statement_call.content = " \t\n "
  /\ statement_call.confidence = 5
  /\ statement_call.message = "Statement content cannot be empty"

-----------------------------------------------------------------------------
(* Properties of MemoryCache (SpecCache).                                  *)

\* C13: a get(k) returns the value of the most recent set(k) when no delete(k)
\* or clear followed that set and the clock has not passed the expiry time the
\* set gave the entry, and None otherwise; when the clock has passed that
\* expiry time, the get leaves no entry for k in the cache.
C13_GetReturnsLiveValue ==
  got # NoGet =>
    LET k == got.key
        fresh == k \in DOMAIN live /\ now <= live[k].expiry
    IN /\ got.value = IF fresh THEN live[k].value ELSE None
       /\ (k \in DOMAIN live /\ now > live[k].expiry) => k \notin DOMAIN memory_cache

\* a get at the very second an entry expires still returned its value
C13_Witness ==
  /\ got # NoGet /\ got.value = "v2"
  /\ got.key \in DOMAIN live /\ live[got.key].expiry = now /\ now > 0

\* a get found the entry expired and removed it
C13_WitnessExpired ==
  /\ got # NoGet /\ got.value = None
  /\ got.key \in DOMAIN live /\ now > live[got.key].expiry
  /\ got.key \notin DOMAIN memory_cache

-----------------------------------------------------------------------------
(* Properties of InMemoryMetricsCollector (SpecMetrics).                   *)

\* the calls of the given kind on key k among the first n completed calls
CompletedCalls(op, k, n) == {i \in 1..n : completed[i].op = op /\ completed[i].key = k}

\* the value the last of the first n completed calls recorded for gauge k
LastCompletedGauge(k, n) ==
  completed[CHOOSE i \in CompletedCalls("record_gauge", k, n) :
              \A j \in CompletedCalls("record_gauge", k, n) : j <= i].value

MetricKeys == {completed[i].key : i \in 1..Len(completed)}

\* what the collector must hold after the first n completed calls
Reports(cs, gs, n) ==
  \A k \in MetricKeys \cup DOMAIN cs \cup DOMAIN gs :
    /\ (IF k \in DOMAIN cs THEN cs[k] ELSE 0)
         = Cardinality(CompletedCalls("increment_counter", k, n))
    /\ k \in DOMAIN gs <=> CompletedCalls("record_gauge", k, n) # {}
    /\ k \in DOMAIN gs => gs[k] = LastCompletedGauge(k, n)

\* C14: under every interleaving of the threads' calls, a summary reports for
\* each counter the number of increment_counter calls completed on its key when
\* the summary was taken and for each gauge the value of the last completed
\* record_gauge; when no call is in progress the collector holds the same for
\* all calls made.
C14_NoUpdateLost ==
  /\ summary.taken => Reports(summary.counters, summary.gauges, summary.after)
  /\ (\A t \in Threads : threads[t].pc = "idle") =>
       Reports(counters, [k \in DOMAIN gauges |-> gauges[k].value], Len(completed))

\* two increments of one counter overlapped (the second arrived while the first
\* held the lock) and a summary then reported 2
C14_Witness ==
  /\ summary.taken /\ summary.after = 2
  /\ "requests" \in DOMAIN summary.counters /\ summary.counters["requests"] = 2
  /\ completed[2].op = "increment_counter" /\ completed[2].waited

-----------------------------------------------------------------------------
(* Properties of the optimizer passes (SpecOpt).                           *)

OptimizerPasses == {"performance", "scalability", "security"}

\* one pass, by the flag that enables it
optimizer_pass(a, flag) ==
  CASE flag = "performance" -> _optimize_for_performance(a)
    [] flag = "scalability" -> _optimize_for_scalability(a)
    [] flag = "security" -> _optimize_for_security(a)

\* the enabled passes applied in the given order
RECURSIVE passes_in_order(_, _, _)
passes_in_order(a, order, qa) ==
  IF Len(order) = 0 THEN a
  ELSE passes_in_order(IF truthy_get(qa, Head(order)) THEN optimizer_pass(a, Head(order))
                       ELSE a,
                       Tail(order), qa)

\* C16: the enabled passes applied to the architecture in any order give the
\* component set and the pattern list that _optimize_architecture returned.
C16_PassesOrderInsensitive ==
  lastOp = "optimize" =>
    \A order \in Orderings(OptimizerPasses) :
      LET other == passes_in_order(before, order, callReq.quality_attributes) IN
      /\ Range(other.components) = Range(architecture.components)
      /\ other.patterns = architecture.patterns

TypeCount(a, t) == Cardinality({i \in 1..Len(a.components) : a.components[i].component_type = t})

\* C17: with performance truthy, the architecture _optimize_architecture returns
\* has exactly one component of type cache and, when it has more than one
\* component of type service, exactly one of type load_balancer.
C17_OneCacheOneLoadBalancer ==
  (lastOp = "optimize" /\ truthy_get(callReq.quality_attributes, "performance")) =>
    /\ TypeCount(architecture, "cache") = 1
    /\ TypeCount(architecture, "service") > 1 => TypeCount(architecture, "load_balancer") = 1

\* the components _optimize_architecture added behind the ones it was given
Appended ==
  SubSeq(architecture.components, Len(before.components) + 1, Len(architecture.components))

CanonicalComponents ==
  {CacheLayer, LoadBalancer, MessageQueue, AuthenticationService, APIGateway}

\* C18: _optimize_architecture leaves the components it was given in place and
\* unmodified, leaves relationships, technology_stack and deployment_model as
\* they were, changes the pattern list at most by appending "microservices", and
\* appends only canonical components, each at most once.
C18_OptimizerAppendOnly ==
  lastOp = "optimize" =>
    /\ Len(before.components) <= Len(architecture.components)
    /\ SubSeq(architecture.components, 1, Len(before.components)) = before.components
    /\ architecture.relationships = before.relationships
    /\ architecture.technology_stack = before.technology_stack
    /\ architecture.deployment_model = before.deployment_model
    /\ architecture.patterns \in {before.patterns, Append(before.patterns, "microservices")}
    /\ \A i \in 1..Len(Appended) : Appended[i] \in CanonicalComponents
    /\ \A i, j \in 1..Len(Appended) : i # j => Appended[i] # Appended[j]

\* all three passes ran on a two-component architecture and appended all five
\* canonical components behind it
C18_Witness ==
  /\ lastOp = "optimize"
  /\ Len(before.components) = 2
  /\ Range(Appended) = CanonicalComponents
  /\ architecture.patterns = <<"microservices">>

-----------------------------------------------------------------------------
(* Properties of the auto-fixer (SpecFix).                                 *)

HandleOperations(type) == <<"Handle " \o type \o " operations">>

\* C19: after validate_architecture_comprehensive and one auto-fix pass over its
\* issues, every component that had no responsibilities has the single
\* responsibility "Handle <its component type> operations" (its type before or
\* after the pass), and every component that had an empty type has type
\* "service".
C19_EveryFaultyComponentFixed ==
  lastOp = "auto_fix" =>
    /\ Len(architecture.components) = Len(before.components)
    /\ \A i \in 1..Len(before.components) :
         /\ before.components[i].responsibilities = <<>> =>
              architecture.components[i].responsibilities \in
                { HandleOperations(before.components[i].component_type),
                  HandleOperations(architecture.components[i].component_type) }
         /\ before.components[i].component_type = "" =>
              architecture.components[i].component_type = "service"

Names(a) == [i \in 1..Len(a.components) |-> a.components[i].name]

ServiceIndependenceIssue == "Pattern microservices requirement not met: service_independence"

Types(a) == [i \in 1..Len(a.components) |-> a.components[i].component_type]

-----------------------------------------------------------------------------
(* Properties of pattern validation (SpecFix).                             *)

\* the keys of the pattern library
LibraryPatterns == {"layered", "microservices", "mvc", "event_driven"}

Count(list, x) == Cardinality({i \in 1..Len(list) : list[i] = x})

UnknownPattern(p) == "Unknown architectural pattern: " \o p
RequirementNotMet(p, r) == "Pattern " \o p \o " requirement not met: " \o r

\* C21: the issues _validate_patterns reported for the validated architecture
\* are one "Unknown architectural pattern" issue for every declared pattern
\* that is not a library key and, for every declared library pattern, one
\* "requirement not met" issue for every requirement whose predicate is false,
\* and nothing else; there is no pattern issue exactly when every declared
\* pattern is a library key and all their predicates hold.
C21_PatternIssuesExact ==
  lastOp = "auto_fix" =>
    LET issues == _validate_patterns(before)
        declared == before.patterns
        known == Range(declared) \cap LibraryPatterns
        unknown == Range(declared) \ LibraryPatterns
        unmet(p) == {r \in Range(pattern_library[p].requirements) :
                       ~_check_pattern_requirement(before, r)}
    IN /\ \A p \in unknown : Count(issues, UnknownPattern(p)) = Count(declared, p)
       /\ \A p \in known : \A r \in unmet(p) :
            Count(issues, RequirementNotMet(p, r)) = Count(declared, p)
       /\ Range(issues) = {UnknownPattern(p) : p \in unknown}
                          \cup UNION {{RequirementNotMet(p, r) : r \in unmet(p)} : p \in known}
       /\ (issues = <<>>) <=> (unknown = {} /\ \A p \in known : unmet(p) = {})

\* the validator ran on an architecture that declares microservices, with both
\* of its requirements unmet
C21_Witness ==
  /\ lastOp = "auto_fix"
  /\ before.patterns = <<"microservices">>
  /\ Len(_validate_patterns(before)) = 2

\* the validator ran on an architecture with an unknown pattern declared twice
C21_WitnessUnknown ==
  /\ lastOp = "auto_fix"
  /\ Count(before.patterns, "cqrs") = 2
  /\ Count(_validate_patterns(before), UnknownPattern("cqrs")) = 2

-----------------------------------------------------------------------------
(* Properties of pattern suggestion and relationship inference (SpecInfer).*)

\* the functional-requirement text has one of the words
Matches(words) ==
  \E w \in words :
    contains(w, lower(join(" ", requirements.functional_requirements)))

Flag(key) ==
  /\ key \in DOMAIN requirements.quality_attributes
  /\ requirements.quality_attributes[key] = TRUE

\* C22: the pattern list suggest_patterns returned to infer_architecture has no
\* duplicate and is not empty; it has "microservices" exactly when api, service
\* or microservice occurs in the functional text or scalability is set, "mvc"
\* exactly when web, ui or interface occurs, "event_driven" exactly when event,
\* notification or async occurs, "layered" exactly when layer or tier occurs or
\* nothing else was suggested, "caching" whenever performance is set; it is
\* ["layered"] when no keyword occurs and no flag is set.
C22_SuggestedPatterns ==
  (lastOp = "infer_architecture" /\ ~inferRaised) =>
    LET patterns == architecture.patterns
        micro == Matches({"api", "service", "microservice"}) \/ Flag("scalability")
        mvc == Matches({"web", "ui", "interface"})
        event == Matches({"event", "notification", "async"})
        layer == Matches({"layer", "tier"})
        nothing == ~micro /\ ~mvc /\ ~event /\ ~layer /\ ~Flag("performance")
    IN /\ Cardinality(Range(patterns)) = Len(patterns)
       /\ Len(patterns) > 0
       /\ ("microservices" \in Range(patterns)) <=> micro
       /\ ("mvc" \in Range(patterns)) <=> mvc
       /\ ("event_driven" \in Range(patterns)) <=> event
       /\ ("layered" \in Range(patterns)) <=> (layer \/ nothing)
       /\ Flag("performance") => "caching" \in Range(patterns)
       /\ nothing => patterns = <<"layered">>

\* infer_architecture returned for requirements whose text matches a keyword and
\* whose scalability and performance flags are set
C22_Witness ==
  /\ lastOp = "infer_architecture" /\ ~inferRaised
  /\ Matches({"api", "service", "microservice"})
  /\ Flag("scalability") /\ Flag("performance")
  /\ Range(architecture.patterns) = {"microservices", "caching"}

\* infer_architecture returned the default list
C22_WitnessDefault ==
  /\ lastOp = "infer_architecture" /\ ~inferRaised
  /\ requirements.functional_requirements = <<>>
  /\ Flag("security")
  /\ architecture.patterns = <<"layered">>

\* the positions of the components whose type satisfies `test`
Positions(a, test(_)) == {i \in 1..Len(a.components) : test(a.components[i].component_type)}

TypeHasApi(t) == contains("api", t)
TypeIsService(t) == t = "service"
TypeHasDatabase(t) == contains("database", t)

\* the number of pairs of positions from I and J named source and target
Pairs(a, I, J, source, target) ==
  Cardinality({p \in I \X J : /\ a.components[p[1]].name = source
                               /\ a.components[p[2]].name = target})

\* C23: the relationships of the architecture infer_architecture returned are
\* one "calls" edge for every pair of a component whose type contains "api" and
\* a component of type "service", one "uses" edge for every pair of a "service"
\* component and a component whose type contains "database", and no other edge:
\* there are |api| * |service| + |service| * |database| of them.
C23_RelationshipsAreCrossProducts ==
  (lastOp = "infer_architecture" /\ ~inferRaised) =>
    LET a == architecture
        rels == a.relationships
        api == Positions(a, TypeHasApi)
        service == Positions(a, TypeIsService)
        database == Positions(a, TypeHasDatabase)
        edges(source, target, type) ==
          Cardinality({k \in 1..Len(rels) : /\ rels[k].source = source
                                            /\ rels[k].target = target
                                            /\ rels[k].type = type})
    IN /\ Len(rels) = Cardinality(api) * Cardinality(service)
                      + Cardinality(service) * Cardinality(database)
       /\ \A i \in 1..Len(a.components) : \A j \in 1..Len(a.components) :
            LET source == a.components[i].name
                target == a.components[j].name
            IN /\ edges(source, target, "calls") = Pairs(a, api, service, source, target)
               /\ edges(source, target, "uses") = Pairs(a, service, database, source, target)
       /\ \A k \in 1..Len(rels) : rels[k].type \in {"calls", "uses"}

\* infer_architecture returned an architecture with an api component, two
\* service components and two edges
C23_Witness ==
  /\ lastOp = "infer_architecture" /\ ~inferRaised
  /\ Cardinality(Positions(architecture, TypeHasApi)) = 1
  /\ Cardinality(Positions(architecture, TypeIsService)) = 2
  /\ Len(architecture.relationships) = 2

-----------------------------------------------------------------------------
(* Properties of the parser (SpecParse).                                   *)

\* the four keyword tables of the parser, by the category they belong to
KeywordTable(category) ==
  CASE category = "functional" ->
         {"create", "build", "implement", "develop", "add", "remove",
          "update", "delete", "manage", "handle", "process", "generate"}
    [] category = "non_functional" ->
         {"performance", "scalability", "security", "reliability",
          "availability", "usability", "maintainability", "portability"}
    [] category = "constraint" ->
         {"must", "should", "cannot", "limited to", "restricted",
          "required", "mandatory", "forbidden", "not allowed"}
    [] category = "business_rule" ->
         {"if", "when", "unless", "only if", "provided that",
          "business rule", "policy", "regulation", "compliance"}

Categories == {"functional", "non_functional", "constraint", "business_rule"}

MatchesTable(content, category) ==
  \E keyword \in KeywordTable(category) : contains(keyword, lower(content))

\* the output list of a category in the requirements parse_statements returned
OutputList(category) ==
  CASE category = "functional" -> processing.requirements.functional_requirements
    [] category = "non_functional" -> processing.requirements.non_functional_requirements
    [] category = "constraint" -> processing.requirements.constraints
    [] category = "business_rule" -> processing.requirements.business_rules

Declared(category) ==
  {i \in 1..Len(conversation.statements) :
     conversation.statements[i].statement_type = category}

\* C24 as stated: every statement is filed under every category whose keyword
\* table its content matches, whatever its declared statement_type.
C24_FiledUnderEveryMatchingTable ==
  processing.op = "parse_statements" =>
    \A i \in 1..Len(conversation.statements) : \A category \in Categories :
      MatchesTable(conversation.statements[i].content, category)
        => OutputList(category) # <<>>

\* C24, amended: a statement is filed under the category of its declared
\* statement_type only: a category no statement declares has an empty output
\* list, even when a statement matches its keyword table, and a category that
\* statements declare has at least one item for each of them.
C24_FiledUnderDeclaredTypeOnly ==
  processing.op = "parse_statements" =>
    \A category \in Categories :
      /\ Declared(category) = {} => OutputList(category) = <<>>
      /\ Len(OutputList(category)) >= Cardinality(Declared(category))

\* the parser returned for a functional statement that has an action verb and a
\* modal word: it is in the functional list and the constraint list is empty
C24_Witness ==
  /\ processing.op = "parse_statements"
  /\ \E i \in Declared("functional") :
       /\ MatchesTable(conversation.statements[i].content, "functional")
       /\ MatchesTable(conversation.statements[i].content, "constraint")
  /\ Declared("constraint") = {}
  /\ processing.requirements.functional_requirements # <<>>
  /\ processing.requirements.constraints = <<>>

\* C25: a statement whose content matches no keyword of any table is not
\* dropped: whatever its declared statement_type, its raw content is an item of
\* an output list, and for the four categories that list is the one of its type.
C25_NoStatementDropped ==
  processing.op = "parse_statements" =>
    \A i \in 1..Len(conversation.statements) :
      LET statement == conversation.statements[i] IN
      (\A category \in Categories : ~MatchesTable(statement.content, category)) =>
        /\ \E category \in Categories : statement.content \in Range(OutputList(category))
        /\ statement.statement_type \in Categories =>
             Count(OutputList(statement.statement_type), statement.content)
               = Cardinality({j \in Declared(statement.statement_type) :
                                conversation.statements[j].content = statement.content})

-----------------------------------------------------------------------------
(* Properties of the inference pipeline (SpecArch).                        *)

Templated(req) ==
  {i \in 1..Len(req.extracted_entities) :
     req.extracted_entities[i] \in {"api", "database", "user", "authentication",
                                    "payment", "notification"}}

ComponentNames(a) == [i \in 1..Len(a.components) |-> a.components[i].name]

Returned == lastOp = "infer_and_validate_architecture" /\ ~inferRaised

NoRepeatedEntity ==
  \A i \in 1..Len(requirements.extracted_entities) :
    \A j \in 1..Len(requirements.extracted_entities) :
      requirements.extracted_entities[i] = requirements.extracted_entities[j] => i = j

\* C27: in the architecture infer_and_validate_architecture returned for
\* requirements without a repeated entity, no two components have the same name.
C27_ComponentNamesUnique ==
  (Returned /\ NoRepeatedEntity) =>
    \A i \in 1..Len(architecture.components) : \A j \in 1..Len(architecture.components) :
      architecture.components[i].name = architecture.components[j].name => i = j

\* the pipeline returned for two entities with every flag set: the templates,
\* the microservices pattern and the optimizer passes all added components
C27_Witness ==
  /\ Returned
  /\ requirements.extracted_entities = <<"api", "authentication">>
  /\ \A k \in QualityKeys : Flag(k)
  /\ "microservices" \in Range(architecture.patterns)
  /\ {"APIService", "AuthenticationService", "APIGateway", "ServiceRegistry",
      "CacheLayer", "MessageQueue"}
       \subseteq Range(ComponentNames(architecture))

\* C28: in the architecture infer_and_validate_architecture returned, the source
\* and the target of every relationship are names of its components, and
\* validating it again reports no unknown relationship endpoint.
C28_RelationshipEndpointsPresent ==
  Returned =>
    /\ \A k \in 1..Len(architecture.relationships) :
         /\ architecture.relationships[k].source \in Range(ComponentNames(architecture))
         /\ architecture.relationships[k].target \in Range(ComponentNames(architecture))
    /\ _validate_relationships(architecture) = <<>>

\* the pipeline returned an architecture with adjacency edges and mvc edges
C28_Witness ==
  /\ Returned
  /\ \E k \in 1..Len(architecture.relationships) :
       architecture.relationships[k].type = "calls"
  /\ \E k \in 1..Len(architecture.relationships) :
       /\ architecture.relationships[k].source = "Controller"
       /\ architecture.relationships[k].target = "Model"

\* C29: every pattern of the architecture infer_and_validate_architecture
\* returned is a key of the pattern library, and validating it again reports no
\* unknown pattern.
C29_PatternsAreLibraryKeys ==
  Returned =>
    /\ Range(architecture.patterns) \subseteq LibraryPatterns
    /\ \A k \in 1..Len(_validate_patterns(architecture)) :
         \A p \in Range(architecture.patterns) :
           _validate_patterns(architecture)[k] # UnknownPattern(p)

-----------------------------------------------------------------------------
(* Properties of the recursive process (SpecRec).                          *)

\* C30: recursive_architectural_process terminates: the interpreter comes to
\* the outermost return.  On the way no call has a depth above 4, a call that
\* does not take the base case makes exactly two recursive calls and a base
\* call none, and what a call that recursed returns is composed from what its
\* calls returned: the returned Architecture has the five components of every
\* base call, one base call more than calls that recursed, and the patterns,
\* constraints and quality attributes of the inferred Architecture.
C30_RecursionTerminates ==
  /\ [](/\ \A k \in 1..Len(call_stack) : call_stack[k].depth = k - 1 /\ k - 1 <= 4
        /\ \A call \in finished : call.calls = IF call.base THEN 0 ELSE 2
        /\ returned # NotReturned =>
             /\ call_stack = <<>>
             /\ total_calls = 2 * base_calls - 1
             /\ Len(returned.components) = 5 * base_calls
             /\ returned.patterns = concrete_infer_architecture(legacy_requirements).patterns
             /\ returned.constraints
                  = concrete_infer_architecture(legacy_requirements).constraints)
  /\ <>(returned # NotReturned)

\* the call returned after it recursed down to depth 4 on both sides: 31 calls,
\* 16 of them base calls
C30_Witness ==
  /\ returned # NotReturned
  /\ total_calls = 31
  /\ \E call \in finished : call.depth = 4 /\ call.base
  /\ \E call \in finished : call.depth = 0 /\ ~call.base
  /\ Len(returned.components) = 80

====
